---- MODULE Spec2Model ----
(***************************************************************************)
(* Model of the MCQ generator mobile client (frontend1): the assessment    *)
(* screen's scoring, the result screen's percentage/grade, the export      *)
(* helpers of utils/pdfGenerator, the file upload screen with its          *)
(* processFileAPI calls over a WebSocket, and the question-count screen.   *)
(*                                                                         *)
(* The screens are independent React components; each group of variables   *)
(* below is the state of one of them, and each has its own specification   *)
(* (SpecGrade, SpecExport, SpecAssess, SpecUpload, SpecNumQ) in which the  *)
(* other groups stay at their initial values.                              *)
(*                                                                         *)
(* A handler action models the handler together with the re-render React   *)
(* performs when the event has been handled, so the guards (disabled=...,  *)
(* conditional rendering) read the state the handler's setState calls left.*)
(***************************************************************************)
EXTENDS Integers, Sequences, FiniteSets, TLC

\* JavaScript's undefined (a missing object key, a function without return).
Undefined == "undefined"

(***************************************************************************)
(* Bounds of the model.                                                    *)
(***************************************************************************)
\* Largest total (number of questions) the percentage/grade inputs range over.
MaxTotal == 200
\* Largest number of questions handed to the assessment screen.
MaxQuestions == 2
\* Cap on the generation requests in flight at once (NumQuestionsScreen).
MaxRequests == 2
\* Cap on the processFileAPI calls in flight at once (FileUploadScreen).
MaxCalls == 2
\* setCurrentQuestion updates handled before the view is rendered again.
MaxUnrendered == 2
\* Longest options list the backend returns for a question (MCQScreen).
MaxOptions == 2

VARIABLES
  \* ---- MCQResultScreen / generateResultReport: percentage and grade ----
  score,            \* route.params.score handed to MCQResultScreen
  total,            \* route.params.total
  rendered,         \* MCQResultScreen has rendered its score card
  percentage,       \* MCQResultScreen's percentage (meaningful once rendered)
  grade,            \* MCQResultScreen's grade
  reported,         \* generateResultReport has computed its grade
  reportPercentage, \* generateResultReport's percentage (meaningful once reported)
  reportGrade       \* generateResultReport's grade

VARIABLES
  \* ---- the application: navigator and Alert ----
  route,            \* the focused screen of the stack navigator
  alert             \* title of the Alert dialog on display, or NoAlert

VARIABLES
  \* ---- MCQAssessmentScreen ----
  generatedMCQs,    \* route.params.generatedMCQs
  mcqs,             \* useState([]): the formatted, shuffled questions
  currentQuestion,  \* useState(0): 0-based index of the question shown
  renderedQuestion, \* the currentQuestion that the view on display was rendered from
  answerAt,         \* per question, the place its answer took in the shuffled options
  pressed,          \* per answered question, the place of the option pressed last
  selectedAnswers,  \* useState({}): question index -> selected option text
  results           \* route.params.results handed to MCQResult

VARIABLES
  \* ---- NumQuestionsScreen ----
  nqMounted,        \* the NumQuestions screen is on the navigator's stack
  nqParams,         \* route.params of NumQuestions
  numQuestions,     \* useState(3): the slider's value
  loading,          \* useState(false)
  genRequests,      \* the generation requests in flight
  genResult,        \* how the last generation request settled
  screenMcqs        \* route.params.mcqs handed to MCQScreen

VARIABLES
  \* ---- utils/pdfGenerator: one call of generateMCQFile / generateResultReport ----
  expFn,            \* the function running or last run, or "none"
  expPc,            \* where the call stands: the await it is suspended at
  expList,          \* its first argument (mcqs or results)
  expFormat,        \* its format argument
  expFileUri,       \* its local fileUri
  expFile,          \* the document handed to Print / FileSystem
  expReturn,        \* what the call returned ("pending" until it has)
  expAlerts,        \* the alerts the call has shown
  printCalls,       \* Print.printToFileAsync calls made by the call
  writeCalls,       \* FileSystem.writeAsStringAsync calls made by the call
  shareCalls,       \* Sharing.shareAsync calls made by the call
  expFailure        \* the step of the call that threw or rejected, or "none"

VARIABLES
  \* ---- FileUploadScreen and its processFileAPI calls ----
  fileUri,          \* useState('')
  fileName,         \* useState('')
  fileType,         \* useState('')
  documentType,     \* useState('document')
  isLoading,        \* useState(false)
  showBookOptions,  \* useState(false): the book-options modal is visible
  calls,            \* the processFileAPI calls that have not settled
  uploadError,      \* message of the screen's 'Error' alert on display
  navParams,        \* the screen navigated to and its params
  uploadMounted,    \* a FileUploadScreen is on the navigator's stack
  wsCurrent,        \* ws.current: "null" or the readyState of the socket it holds
  progressSockets,  \* the screen's progress sockets that are connecting or open
  settledSockets,   \* the sockets of settled calls left connecting or open
  callResult        \* how the last processFileAPI call settled, and with what

VARIABLES
  \* ---- one processFileWithWebSocket call, followed past its settlement ----
  sessionClientId,  \* FileUploadScreen's clientId (useRef), key of its progress socket
  wsPc,             \* where the promise executor stands
  wsClientId,       \* wsService.clientId, key of the processing socket
  wsReadyState,     \* "null" while wsService.ws is null, else ws.readyState
  wsSent,           \* process_file commands sent on the socket
  wsTimer,          \* the 60-second timer
  wsPromise,        \* the promise returned: pending, resolved or rejected
  wsEvent           \* the socket event or timer expiry handled last

VARIABLES
  \* ---- one generateMCQsFromAPI call ----
  gmContent,        \* its content argument
  gmNum,            \* its numQuestions argument
  gmPc,             \* the await the call is suspended at, or "done"
  gmNet,            \* networkState.isConnected as NetInfo.fetch reported it
  gmFetches,        \* the bodies of the fetch requests the call has issued
  gmTimer,          \* the 60-second timer of the timeout promise
  gmResponse,       \* the response the fetch promise resolved with, or NoResponse
  gmOutcome         \* pending, or what the call returned or threw

VARIABLES
  \* ---- MCQScreen ----
  backendMcqs       \* route.params.mcqs: the questions as the backend returned them

VARIABLES
  \* ---- ChapterSelectionScreen ----
  csChapters,       \* route.params.chapters: the contents of the chapters
  selectedChapters  \* useState([]): the selected indices, in selection order

resultFlags == <<rendered, percentage, grade,
                 reported, reportPercentage, reportGrade>>
gradeVars == <<score, total, resultFlags>>
appVars == <<route, alert>>
assessTrace == <<answerAt, pressed>>
assessVars == <<generatedMCQs, mcqs, currentQuestion, renderedQuestion,
               selectedAnswers, results, assessTrace>>
numqVars == <<nqMounted, nqParams, numQuestions, loading, genRequests, genResult,
              screenMcqs>>

exportVars == <<expFn, expPc, expList, expFormat, expFileUri, expFile,
                expReturn, expAlerts, printCalls, writeCalls, shareCalls,
                expFailure>>

uploadVars == <<fileUri, fileName, fileType, documentType, isLoading,
                showBookOptions, calls, uploadError, navParams, uploadMounted,
                wsCurrent, progressSockets, settledSockets,
                 callResult>>

chapterVars == <<csChapters, selectedChapters>>
mcqScreenVars == <<backendMcqs>>
genCallVars == <<gmContent, gmNum, gmPc, gmNet, gmFetches, gmTimer, gmResponse,
                 gmOutcome>>
wsCallVars == <<sessionClientId, wsPc, wsClientId, wsReadyState, wsSent, wsTimer,
                wsPromise, wsEvent>>

vars == <<appVars, gradeVars, assessVars, exportVars, numqVars, uploadVars,
          chapterVars, mcqScreenVars, wsCallVars, genCallVars>>

\* What the actions of one screen leave alone: the variables of the others.
offAssess == <<exportVars, numqVars, uploadVars, chapterVars, mcqScreenVars, wsCallVars, genCallVars>>
offGrade == <<appVars, assessVars, exportVars, numqVars, uploadVars, chapterVars,
              mcqScreenVars, wsCallVars, genCallVars>>
offExport == <<appVars, assessVars, numqVars, uploadVars, chapterVars,
               mcqScreenVars, wsCallVars, genCallVars>>
offNumQ == <<gradeVars, assessVars, exportVars, uploadVars, chapterVars,
             mcqScreenVars, wsCallVars, genCallVars>>
offUpload == <<gradeVars, assessVars, exportVars, numqVars, chapterVars,
               mcqScreenVars, wsCallVars, genCallVars>>
offChapter == <<gradeVars, assessVars, exportVars, uploadVars, mcqScreenVars, wsCallVars, genCallVars>>
offMcqScreen == <<gradeVars, exportVars, numqVars, uploadVars, chapterVars,
                  wsCallVars, genCallVars>>
offWsCall == <<appVars, gradeVars, assessVars, exportVars, numqVars, uploadVars,
               chapterVars, mcqScreenVars, genCallVars>>
offGenCall == <<appVars, gradeVars, assessVars, exportVars, numqVars, uploadVars,
                chapterVars, mcqScreenVars, wsCallVars>>

(***************************************************************************)
(* Math.round((score / total) * 100) in IEEE-754 double arithmetic.        *)
(*                                                                         *)
(* Math.round rounds to the nearest integer, ties toward +infinity.  On    *)
(* the exact rational 100*score/total that is RoundHalfUp.  The code       *)
(* computes the quotient and the product in doubles, each rounded to       *)
(* nearest; for the pairs of DoubleTieBelow the exact value is k + 1/2 but *)
(* the double product is the double just below it (23/40*100 evaluates to  *)
(* 57.49999999999999), so Math.round yields k instead of k + 1.  These are *)
(* all the pairs with 0 <= score <= total <= 240 on which the double       *)
(* evaluation and the exact one disagree (enumerated by evaluating the     *)
(* expression in double arithmetic for every such pair).                   *)
(***************************************************************************)
RoundHalfUp(num, den) == (2 * num + den) \div (2 * den)

DoubleTieBelow ==
  { <<23, 40>>, <<46, 80>>, <<69, 120>>, <<92, 160>>, <<29, 200>>,
    <<57, 200>>, <<113, 200>>, <<115, 200>>, <<138, 240>> }

MathRoundPct(s, t) ==
  IF <<s, t>> \in DoubleTieBelow
    THEN RoundHalfUp(100 * s, t) - 1
    ELSE RoundHalfUp(100 * s, t)

MathFloorPct(s, t) == (100 * s) \div t

\* MCQResultScreen.js:8   total > 0 ? Math.round((score / total) * 100) : 0
ScreenPercentageFloor(s, t) == IF t > 0 THEN MathFloorPct(s, t) ELSE 0
ScreenPercentage(s, t) == IF t > 0 THEN MathRoundPct(s, t) ELSE 0

\* MCQResultScreen.js:10-14
ScreenGradeStrict(p) ==
  IF p > 90 THEN "A"
  ELSE IF p > 80 THEN "B"
  ELSE IF p > 70 THEN "C"
  ELSE IF p > 60 THEN "D"
  ELSE "F"
ScreenGrade(p) ==
  IF p >= 90 THEN "A"
  ELSE IF p >= 80 THEN "B"
  ELSE IF p >= 70 THEN "C"
  ELSE IF p >= 60 THEN "D"
  ELSE "F"

\* pdfGenerator generateResultReport: percentage (line 131)
ReportPercentage(s, t) == IF t > 0 THEN MathRoundPct(s, t) ELSE 0

\* pdfGenerator generateResultReport: grade (lines 132-136)
ReportGrade(p) ==
  IF p >= 90 THEN "A"
  ELSE IF p >= 80 THEN "B"
  ELSE IF p >= 70 THEN "C"
  ELSE IF p >= 60 THEN "D"
  ELSE "F"

(***************************************************************************)
(* MCQAssessmentScreen (screens/MCQAssessmentScreen.js).                   *)
(***************************************************************************)
NoAlert == "none"

\* The generated questions a caller can hand over: answer + distractors as the
\* backend produced them.  Nothing checks that a distractor differs from the
\* answer or from another distractor.
GeneratedChoices ==
  { [answer |-> "b", distractors |-> <<"a">>],
    [answer |-> "a", distractors |-> <<"a", "b">>] }

\* Question lists of length 0..MaxQuestions; the question text of the i-th
\* entry is i, so that entries can be told apart.
GeneratedLists ==
  UNION { { [i \in 1..n |-> [question |-> i,
                             answer |-> f[i].answer,
                             distractors |-> f[i].distractors]] :
            f \in [1..n -> GeneratedChoices] } : n \in 0..MaxQuestions }

\* Variant that lists the answer after the distractors.
CombineAnswerLast(mcq) == mcq.distractors \o <<mcq.answer>>

\* line 26: [mcq.answer, ...mcq.distractors]
CombineOptions(mcq) == <<mcq.answer>> \o mcq.distractors

\* Variant of the formatting that takes the first distractor for the key.
FormatMcqFirstDistractor(mcq) ==
  [question |-> mcq.question,
   options |-> CombineOptions(mcq),
   correctAnswer |-> mcq.distractors[1]]

\* lines 24-28: options = [answer, ...distractors], correctAnswer = answer.
FormatMcq(mcq) ==
  [question |-> mcq.question,
   options |-> CombineOptions(mcq),
   correctAnswer |-> mcq.answer]

\* line 32: [...options].sort(() => 0.5 - Math.random()) returns the same
\* elements in an order that depends on the random comparator.
ShuffledWithRepeats(options, p) == [i \in 1..Len(options) |-> options[p[1]]]
ShuffledBy(options, p) == [i \in 1..Len(options) |-> options[p[i]]]
Shuffles(options) ==
  { ShuffledBy(options, p) : p \in Permutations(1..Len(options)) }

\* selectedAnswers[index]: undefined for an index that was never set.
Get(obj, key) == IF key \in DOMAIN obj THEN obj[key] ELSE Undefined

\* Object.keys(selectedAnswers).length
KeyCountPadded(obj) == Cardinality(DOMAIN obj) + 1
KeyCount(obj) == Cardinality(DOMAIN obj)

\* {...selectedAnswers, [questionIndex]: selectedOption}
Put(obj, key, val) ==
  [k \in DOMAIN obj \cup {key} |-> IF k = key THEN val ELSE obj[k]]

EmptyObject == [k \in {} |-> Undefined]

\* lines 60-62: mcqs.reduce((acc, mcq, index) =>
\*                acc + (selectedAnswers[index] === mcq.correctAnswer ? 1 : 0), 0)
\* ReduceScore(ms, sa, k) is the accumulator after the first k questions.
RECURSIVE ReduceScore(_, _, _)
ReduceScore(ms, sa, k) ==
  IF k = 0 THEN 0
  ELSE ReduceScore(ms, sa, k - 1)
         + (IF Get(sa, k - 1) = ms[k].correctAnswer THEN 1 ELSE 0)

\* Variants of the reduction with a plausible slip in it.
RECURSIVE ReduceAnswered(_, _, _)
ReduceAnswered(ms, sa, k) ==
  IF k = 0 THEN 0
  ELSE ReduceAnswered(ms, sa, k - 1)
         + (IF Get(sa, k - 1) # Undefined THEN 1 ELSE 0)
RECURSIVE ReduceFromOne(_, _, _)
ReduceFromOne(ms, sa, k) ==
  IF k = 0 THEN 1
  ELSE ReduceFromOne(ms, sa, k - 1)
         + (IF Get(sa, k - 1) = ms[k].correctAnswer THEN 1 ELSE 0)
RECURSIVE ReduceMismatch(_, _, _)
ReduceMismatch(ms, sa, k) ==
  IF k = 0 THEN 0
  ELSE ReduceMismatch(ms, sa, k - 1)
         + (IF Get(sa, k - 1) # ms[k].correctAnswer THEN 1 ELSE 0)

SubmitScoreAnswered(ms, sa) == ReduceAnswered(ms, sa, Len(ms))
SubmitScoreFromOne(ms, sa) == ReduceFromOne(ms, sa, Len(ms))
SubmitScoreMismatch(ms, sa) == ReduceMismatch(ms, sa, Len(ms))
SubmitScore(ms, sa) == ReduceScore(ms, sa, Len(ms))

\* Variant of the results mapping that reads selectedAnswers one key too far.
SubmitResultsOneBased(ms, sa) ==
  [i \in 1..Len(ms) |->
     [question |-> ms[i].question,
      options |-> ms[i].options,
      correctAnswer |-> ms[i].correctAnswer,
      userAnswer |-> Get(sa, i)]]

\* lines 67-70: mcqs.map((mcq, index) => ({...mcq, userAnswer: selectedAnswers[index]}))
SubmitResults(ms, sa) ==
  [i \in 1..Len(ms) |->
     [question |-> ms[i].question,
      options |-> ms[i].options,
      correctAnswer |-> ms[i].correctAnswer,
      userAnswer |-> Get(sa, i - 1)]]

\* lines 97 and 103: an option is drawn as selected when
\* selectedAnswers[currentQuestion] === option.
IsSelected(sa, index, option) == Get(sa, index) = option

\* The texts offered as options of the k-th question (lines 93-100).
OptionTexts(ms, k) == { ms[k].options[j] : j \in 1..Len(ms[k].options) }

\* Every way of answering all the questions of ms with handleAnswer.
CompleteAnswers(ms) ==
  { a \in [0..(Len(ms) - 1) -> UNION { OptionTexts(ms, k) : k \in 1..Len(ms) }] :
      \A i \in 0..(Len(ms) - 1) : a[i] \in OptionTexts(ms, i + 1) }

AssessBlank ==
  /\ mcqs = <<>>
  /\ currentQuestion = 0
  /\ renderedQuestion = 0
  /\ selectedAnswers = EmptyObject
  /\ results = <<>>
  /\ answerAt = <<>>
  /\ pressed = EmptyObject

AssessQuiet ==
  /\ generatedMCQs = <<>>
  /\ AssessBlank

\* The application has just started: AppNavigator.js, line 19.
AppQuiet ==
  /\ route = "Home"
  /\ alert = NoAlert

\* The screen has just been navigated to: useState initial values, lines 13-19.
AssessInit ==
  /\ route = "MCQAssessment"
  /\ alert = NoAlert
  /\ generatedMCQs \in GeneratedLists
  /\ AssessBlank

\* The questions are on display and no dialog covers them (lines 74-82).
AssessInteractive ==
  /\ route = "MCQAssessment"
  /\ alert = NoAlert
  /\ Len(mcqs) > 0

\* The view on display was rendered from the current state.
ViewCurrent == renderedQuestion = currentQuestion

\* What the view on display offers (lines 115-116, 123-137).
PreviousDisabled == renderedQuestion = 0
SubmitOffered == renderedQuestion = Len(mcqs) - 1
NextOffered == ~SubmitOffered

\* Presses handled since the view was rendered have moved the index by less
\* than MaxUnrendered.
PressHandled ==
  /\ currentQuestion - renderedQuestion < MaxUnrendered
  /\ renderedQuestion - currentQuestion < MaxUnrendered

\* useEffect, lines 21-41: runs once after the first render.
FormatAndShuffle ==
  /\ route = "MCQAssessment"
  /\ mcqs = <<>>
  /\ Len(generatedMCQs) > 0
  /\ \E ps \in [1..Len(generatedMCQs) ->
                  UNION { Permutations(1..Len(CombineOptions(generatedMCQs[i]))) :
                            i \in 1..Len(generatedMCQs) }] :
       /\ \A i \in 1..Len(generatedMCQs) :
            ps[i] \in Permutations(1..Len(FormatMcq(generatedMCQs[i]).options))
       /\ mcqs' = [i \in 1..Len(generatedMCQs) |->
                     [FormatMcq(generatedMCQs[i]) EXCEPT
                        !.options = ShuffledBy(@, ps[i])]]
       /\ answerAt' = [i \in 1..Len(generatedMCQs) |->
                         CHOOSE j \in DOMAIN ps[i] : ps[i][j] = 1]
  /\ UNCHANGED <<route, generatedMCQs, currentQuestion, renderedQuestion,
                 selectedAnswers, results, alert, pressed>>
  /\ UNCHANGED <<gradeVars, offAssess>>

\* An option of the current question is pressed: handleAnswer, lines 43-48, 100.
HandleAnswer ==
  /\ AssessInteractive
  /\ ViewCurrent
  /\ \E k \in 1..Len(mcqs[currentQuestion + 1].options) :
       /\ selectedAnswers' =
            Put(selectedAnswers, currentQuestion, mcqs[currentQuestion + 1].options[k])
       /\ pressed' = Put(pressed, currentQuestion, k)
  /\ UNCHANGED <<route, generatedMCQs, mcqs, currentQuestion, renderedQuestion,
                 results, alert, answerAt>>
  /\ UNCHANGED <<gradeVars, offAssess>>

\* Previous button, lines 114-121: disabled when the view shows the first
\* question; the updater curr => curr - 1 is applied to the state.
PressPrevious ==
  /\ AssessInteractive
  /\ ~PreviousDisabled
  /\ PressHandled
  /\ currentQuestion' = currentQuestion - 1
  /\ UNCHANGED <<route, generatedMCQs, mcqs, renderedQuestion, selectedAnswers,
                 results, alert>>
  /\ UNCHANGED <<gradeVars, offAssess>>
  /\ UNCHANGED assessTrace

\* Next button, lines 123, 131-137: rendered unless the view shows the last
\* question; the updater curr => curr + 1 is applied to the state.
PressNext ==
  /\ AssessInteractive
  /\ NextOffered
  /\ PressHandled
  /\ currentQuestion' = currentQuestion + 1
  /\ UNCHANGED <<route, generatedMCQs, mcqs, renderedQuestion, selectedAnswers,
                 results, alert>>
  /\ UNCHANGED <<gradeVars, offAssess>>
  /\ UNCHANGED assessTrace

\* Submit button (rendered at the last question): handleSubmit, lines 50-72.
HandleSubmit ==
  /\ AssessInteractive
  /\ ViewCurrent
  /\ SubmitOffered
  /\ IF KeyCount(selectedAnswers) < Len(mcqs)
       THEN /\ alert' = "Incomplete"
            /\ UNCHANGED <<route, results, score, total>>
       ELSE /\ score' = SubmitScore(mcqs, selectedAnswers)
            /\ total' = Len(mcqs)
            /\ results' = SubmitResults(mcqs, selectedAnswers)
            /\ route' = "MCQResult"
            /\ UNCHANGED alert
  /\ UNCHANGED <<generatedMCQs, mcqs, currentQuestion, renderedQuestion,
                 selectedAnswers>>
  /\ UNCHANGED <<resultFlags, offAssess>>
  /\ UNCHANGED assessTrace

\* The re-render that React schedules after setCurrentQuestion: the view shows
\* the question at the new index, and lines 88 and 91 read
\* mcqs[currentQuestion].question, which throws for an index outside the list.
RenderQuestion ==
  /\ route = "MCQAssessment"
  /\ ~ViewCurrent
  /\ IF currentQuestion \in 0..(Len(mcqs) - 1)
       THEN /\ renderedQuestion' = currentQuestion
            /\ UNCHANGED route
       ELSE /\ route' = "RenderError"
            /\ UNCHANGED renderedQuestion
  /\ UNCHANGED <<generatedMCQs, mcqs, currentQuestion, selectedAnswers, results,
                 alert>>
  /\ UNCHANGED <<gradeVars, offAssess>>
  /\ UNCHANGED assessTrace

\* The OK button of the 'Incomplete' dialog, line 55.
DismissIncomplete ==
  /\ route = "MCQAssessment"
  /\ alert = "Incomplete"
  /\ alert' = NoAlert
  /\ UNCHANGED <<route, generatedMCQs, mcqs, currentQuestion, renderedQuestion,
                 selectedAnswers, results>>
  /\ UNCHANGED <<gradeVars, offAssess>>
  /\ UNCHANGED assessTrace

\* The stack header's back button on MCQResult pops that screen, and its route
\* params with it, and returns to the assessment, which is still mounted with
\* its state (AppNavigator.js, lines 56-65).
BackToAssessment ==
  /\ route = "MCQResult"
  /\ route' = "MCQAssessment"
  /\ score' = 0
  /\ total' = 0
  /\ results' = <<>>
  /\ UNCHANGED <<generatedMCQs, mcqs, currentQuestion, renderedQuestion,
                 selectedAnswers, alert>>
  /\ UNCHANGED <<resultFlags, offAssess>>
  /\ UNCHANGED assessTrace


(***************************************************************************)
(* MCQResultScreen is navigated to with (score, total) and renders its     *)
(* score card; the report generator computes its own grade from the same   *)
(* pair.                                                                   *)
(***************************************************************************)
GradeBlank ==
  /\ rendered = FALSE /\ percentage = 0 /\ grade = Undefined
  /\ reported = FALSE /\ reportPercentage = 0 /\ reportGrade = Undefined

GradeQuiet == score = 0 /\ total = 0 /\ GradeBlank

GradeInit ==
  /\ total \in 0..MaxTotal
  /\ score \in 0..total
  /\ GradeBlank

\* MCQResultScreen's render: lines 7-14.
RenderResultScreen ==
  /\ ~rendered
  /\ rendered' = TRUE
  /\ percentage' = ScreenPercentage(score, total)
  /\ grade' = ScreenGrade(ScreenPercentage(score, total))
  /\ UNCHANGED <<score, total, reported, reportPercentage, reportGrade>>
  /\ UNCHANGED offGrade

\* generateResultReport's first statements: lines 131-136.
ReportComputeGrade ==
  /\ rendered
  /\ ~reported
  /\ reported' = TRUE
  /\ reportPercentage' = ReportPercentage(score, total)
  /\ reportGrade' = ReportGrade(ReportPercentage(score, total))
  /\ UNCHANGED <<score, total, rendered, percentage, grade>>
  /\ UNCHANGED offGrade


(***************************************************************************)
(* utils/pdfGenerator: generateMCQFile and generateResultReport.           *)
(*                                                                         *)
(* Both are async functions: the call runs to its first await, and each    *)
(* await is resumed by the platform call settling (resolving with a value  *)
(* or rejecting).  expPc names the await the call is suspended at.         *)
(***************************************************************************)
\* A list argument: an array, or null / undefined.
Arr(items) == [kind |-> "array", items |-> items]
Null == [kind |-> "null", items |-> <<>>]
Undef == [kind |-> "undefined", items |-> <<>>]

\* line 10: !mcqs || mcqs.length === 0
NoMcqsFalsyOnly(list) == list.kind # "array"
NoMcqs(list) == list.kind # "array" \/ Len(list.items) = 0

\* lines 19-25 of generateMCQFile
FormattedMcqs(items) == [i \in 1..Len(items) |-> FormatMcq(items[i])]

\* The document of generateMCQFile, lines 58-74 (HTML) and 91-100 (text): the
\* questions in order, each with its options lettered from 'A'
\* (String.fromCharCode(65 + optIndex)), then the answer key.
McqDocument(items) ==
  [questions |->
     [i \in 1..Len(items) |->
        [number |-> i,
         question |-> FormattedMcqs(items)[i].question,
         options |->
           [j \in 1..Len(FormattedMcqs(items)[i].options) |->
              [letter |-> 65 + (j - 1),
               text |-> FormattedMcqs(items)[i].options[j]]]]],
   answerKey |->
     [i \in 1..Len(items) |->
        [number |-> i, answer |-> FormattedMcqs(items)[i].correctAnswer]]]

\* The document of generateResultReport, lines 215-237 (HTML) and 254-265
\* (text): the score card, then one entry per result in order; the correct
\* answer is printed only under a wrong answer.
ReportDocument(items, s, t) ==
  [grade |-> ReportGrade(ReportPercentage(s, t)),
   score |-> s,
   total |-> t,
   percentage |-> ReportPercentage(s, t),
   entries |->
     [i \in 1..Len(items) |->
        [number |-> i,
         question |-> items[i].question,
         userAnswer |-> items[i].userAnswer,
         correct |-> (items[i].userAnswer = items[i].correctAnswer),
         correctAnswer |-> IF items[i].userAnswer # items[i].correctAnswer
                             THEN items[i].correctAnswer ELSE Undefined]]]

NoFile == [questions |-> <<>>, answerKey |-> <<>>]

\* The alert texts of the two functions.
AlertNoMcqs == "No MCQs to download"
AlertNoSharing(fn) ==
  IF fn = "generateMCQFile" THEN "Sharing is not available on this device"
  ELSE "Sharing is not available on your device"
AlertFailed(fn) ==
  IF fn = "generateMCQFile" THEN "Failed to generate file. Please try again."
  ELSE "Failed to generate assessment report"

\* What each function returns: generateMCQFile true / false,
\* generateResultReport nothing.
ReturnAsIfShared(fn, ok) == IF fn = "generateMCQFile" THEN "true" ELSE Undefined
ReturnOf(fn, ok) ==
  IF fn = "generateMCQFile" THEN (IF ok THEN "true" ELSE "false") ELSE Undefined

ExportQuiet ==
  /\ expFn = "none"
  /\ expPc = "idle"
  /\ expList = Undef
  /\ expFormat = "pdf"
  /\ expFileUri = Undefined
  /\ expFile = NoFile
  /\ expReturn = "pending"
  /\ expAlerts = <<>>
  /\ printCalls = 0
  /\ writeCalls = 0
  /\ shareCalls = 0
  /\ expFailure = "none"

\* No export call has been made yet.  The functions keep nothing between
\* calls (every local is per call), so each call starts from this state.
ExportIdle == expPc = "idle"

\* The catch blocks, lines 120-124 and 283-286.
ExportCaught ==
  /\ expAlerts' = Append(expAlerts, AlertFailed(expFn))
  /\ expReturn' = ReturnOf(expFn, FALSE)
  /\ expPc' = "done"

\* The arguments the callers can pass.
McqListArgs == {Null, Undef} \cup { Arr(g) : g \in GeneratedLists }
Formats == {"pdf", "txt"}

\* The results a list of questions g can lead to (unshuffled options).
ResultsOf(g) ==
  { Arr(SubmitResults(FormattedMcqs(g), a)) : a \in CompleteAnswers(FormattedMcqs(g)) }
ResultListArgs == {Undef} \cup UNION { ResultsOf(g) : g \in GeneratedLists }

\* generateMCQFile(mcqs, format) up to its first await: lines 8-27, 79, 103-104.
GenerateMCQFile ==
  /\ ExportIdle
  /\ \E list \in McqListArgs, format \in Formats :
       /\ expFn' = "generateMCQFile"
       /\ expList' = list
       /\ expFormat' = format
       /\ shareCalls' = 0
       /\ expFailure' = "none"
       /\ IF NoMcqs(list)
            THEN /\ expAlerts' = <<AlertNoMcqs>>
                 /\ expReturn' = "false"
                 /\ expPc' = "done"
                 /\ expFile' = NoFile
                 /\ printCalls' = 0
                 /\ writeCalls' = 0
            ELSE /\ expAlerts' = <<>>
                 /\ expReturn' = "pending"
                 /\ expFile' = McqDocument(list.items)
                 /\ IF format = "pdf"
                      THEN expPc' = "print" /\ printCalls' = 1 /\ writeCalls' = 0
                      ELSE expPc' = "write" /\ printCalls' = 0 /\ writeCalls' = 1
       /\ expFileUri' = IF ~NoMcqs(list) /\ format # "pdf"
                          THEN "document.txt" ELSE Undefined
  /\ UNCHANGED <<gradeVars, offExport>>

\* generateResultReport(results, score, total, format) up to its first await:
\* lines 128-138, 242, 269-271.  results.map throws on a non-array.
GenerateResultReport ==
  /\ ExportIdle
  /\ \E format \in Formats :
       \E list \in ResultListArgs :
         /\ expFn' = "generateResultReport"
         /\ expList' = list
         /\ expFormat' = format
         /\ expFileUri' = IF list.kind = "array" /\ format # "pdf"
                            THEN "document.txt" ELSE Undefined
         /\ shareCalls' = 0
         /\ expFailure' = IF list.kind # "array" THEN "results.map" ELSE "none"
         /\ score' = Cardinality({ i \in 1..Len(list.items) :
                        list.items[i].userAnswer = list.items[i].correctAnswer })
         /\ total' = Len(list.items)
         /\ reported' = TRUE
         /\ reportPercentage' = ReportPercentage(score', total')
         /\ reportGrade' = ReportGrade(ReportPercentage(score', total'))
         /\ IF list.kind # "array"
              THEN /\ expAlerts' = <<AlertFailed("generateResultReport")>>
                   /\ expReturn' = Undefined
                   /\ expPc' = "done"
                   /\ expFile' = NoFile
                   /\ printCalls' = 0
                   /\ writeCalls' = 0
              ELSE /\ expAlerts' = <<>>
                   /\ expReturn' = "pending"
                   /\ expFile' = ReportDocument(list.items, score', total')
                   /\ IF format = "pdf"
                        THEN expPc' = "print" /\ printCalls' = 1 /\ writeCalls' = 0
                        ELSE expPc' = "write" /\ printCalls' = 0 /\ writeCalls' = 1
  /\ UNCHANGED <<rendered, percentage, grade, offExport>>

\* await Print.printToFileAsync(...) settles: lines 79-83 and 242-246.
PrintToFileSettles ==
  /\ expPc = "print"
  /\ \E ok \in BOOLEAN :
       IF ok
         THEN /\ expFileUri' = "print.pdf"
              /\ expPc' = "available"
              /\ UNCHANGED <<expReturn, expAlerts, expFailure>>
         ELSE ExportCaught /\ expFailure' = "printToFileAsync" /\ UNCHANGED expFileUri
  /\ UNCHANGED <<expFn, expList, expFormat, expFile, printCalls, writeCalls,
                 shareCalls>>
  /\ UNCHANGED <<gradeVars, offExport>>

\* await FileSystem.writeAsStringAsync(fileUri, textContent) settles:
\* lines 103-104 and 269-271.
WriteAsStringSettles ==
  /\ expPc = "write"
  /\ \E ok \in BOOLEAN :
       IF ok
         THEN /\ expPc' = "available"
              /\ UNCHANGED <<expReturn, expAlerts, expFailure>>
         ELSE ExportCaught /\ expFailure' = "writeAsStringAsync"
  /\ UNCHANGED <<expFn, expList, expFormat, expFileUri, expFile, printCalls,
                 writeCalls, shareCalls>>
  /\ UNCHANGED <<gradeVars, offExport>>

\* await Sharing.isAvailableAsync() settles: lines 107-118 and 275-282.
IsAvailableSettles ==
  /\ expPc = "available"
  /\ \E outcome \in {"true", "false", "rejected"} :
       CASE outcome = "true" ->
              /\ shareCalls' = shareCalls + 1
              /\ expPc' = "share"
              /\ UNCHANGED <<expReturn, expAlerts, expFailure>>
         [] outcome = "false" ->
              /\ expAlerts' = Append(expAlerts, AlertNoSharing(expFn))
              /\ expReturn' = ReturnOf(expFn, FALSE)
              /\ expPc' = "done"
              /\ UNCHANGED <<shareCalls, expFailure>>
         [] outcome = "rejected" ->
              ExportCaught /\ expFailure' = "isAvailableAsync" /\ UNCHANGED shareCalls
  /\ UNCHANGED <<expFn, expList, expFormat, expFileUri, expFile, printCalls,
                 writeCalls>>
  /\ UNCHANGED <<gradeVars, offExport>>

\* await Sharing.shareAsync(fileUri, ...) settles: lines 109-114 and 276.
ShareSettles ==
  /\ expPc = "share"
  /\ \E ok \in BOOLEAN :
       IF ok
         THEN /\ expReturn' = ReturnOf(expFn, TRUE)
              /\ expPc' = "done"
              /\ UNCHANGED <<expAlerts, expFailure>>
         ELSE ExportCaught /\ expFailure' = "shareAsync"
  /\ UNCHANGED <<expFn, expList, expFormat, expFileUri, expFile, printCalls,
                 writeCalls, shareCalls>>
  /\ UNCHANGED <<gradeVars, offExport>>

(***************************************************************************)
(* NumQuestionsScreen (screens/NumQuestionsScreen.js).                     *)
(***************************************************************************)
\* The slider's range and the initial value of numQuestions.
MinimumValue == 1
MaximumValue == 15
InitialNumQuestions == 3

\* The route params the callers pass (line 19): the text screens and
\* FileUploadScreen pass content; the older upload screen passes content and
\* the file triple; ChapterSelection passes {text} and uploadPdfFile passes
\* {fileContent}, which leave content and fileUri undefined; "fileUriOnly" is a
\* file reference without name and type.
ParamChoices ==
  { [from |-> "Chat", content |-> "text", fileUri |-> Undefined,
     fileName |-> Undefined, fileType |-> Undefined],
    [from |-> "FileUpload", content |-> "text", fileUri |-> "uri",
     fileName |-> "name", fileType |-> "type"],
    [from |-> "ChapterSelection", content |-> Undefined, fileUri |-> Undefined,
     fileName |-> Undefined, fileType |-> Undefined],
    [from |-> "FileUpload", content |-> Undefined, fileUri |-> "uri",
     fileName |-> Undefined, fileType |-> Undefined] }

\* line 22: !content && !fileUri
NoContent(params) == params.content = Undefined /\ params.fileUri = Undefined

\* line 34: fileUri && fileName && fileType
IsFileRequest(params) ==
  /\ params.fileUri # Undefined
  /\ params.fileName # Undefined
  /\ params.fileType # Undefined

\* The request generateMCQsFromFileAPI posts (apiService.js lines 279-293): the
\* file read from fileUri, its name and type, and num_questions; no text.
FileRequest(params, num) ==
  [endpoint |-> "generate-mcqs-from-file", num |-> num,
   file |-> params.fileUri, text |-> Undefined]

\* The request generateMCQsFromAPI posts (apiService.js lines 190-200): the
\* text and num_questions.
TextRequest(params, num) ==
  [endpoint |-> "generate-mcqs", num |-> num,
   file |-> Undefined, text |-> params.content]

\* line 104: disabled={loading}
GenerateNeverDisabled == FALSE
GenerateDisabled == loading

\* line 47: !mcqs || mcqs.length === 0
\* A settled request: a non-empty list ("mcqs"), an empty list ("empty"),
\* undefined (data.mcqs of the file endpoint, apiService.js line 303) or a
\* rejection.
GenOutcomes == {"mcqs", "empty", "undefined", "rejected"}
McqsMissingUndefinedOnly(outcome) == outcome = "undefined"
McqsMissing(outcome) == outcome \in {"empty", "undefined"}

NumQQuiet ==
  /\ nqMounted = FALSE
  /\ nqParams = [from |-> "Home", content |-> Undefined, fileUri |-> Undefined,
                 fileName |-> Undefined, fileType |-> Undefined]
  /\ numQuestions = InitialNumQuestions
  /\ loading = FALSE
  /\ genRequests = <<>>
  /\ genResult = "none"
  /\ screenMcqs = "none"

\* The screen after its first render: lines 15-26.
NumQInit ==
  /\ route = "NumQuestions"
  /\ nqMounted = TRUE
  /\ nqParams \in ParamChoices
  /\ alert = IF NoContent(nqParams) THEN "No content provided" ELSE NoAlert
  /\ numQuestions = InitialNumQuestions
  /\ loading = FALSE
  /\ genRequests = <<>>
  /\ genResult = "none"
  /\ screenMcqs = "none"

\* The screen is focused and no dialog covers it.
NumQInteractive ==
  /\ nqMounted
  /\ route = "NumQuestions"
  /\ alert = NoAlert

\* The slider is moved: onValueChange, lines 67-73.
SlideTo ==
  /\ NumQInteractive
  /\ \E value \in MinimumValue..MaximumValue :
       /\ value # numQuestions
       /\ numQuestions' = value
  /\ UNCHANGED <<nqMounted, nqParams, loading, genRequests, genResult,
                 screenMcqs>>
  /\ UNCHANGED <<appVars, offNumQ>>

\* The Generate button: handleGenerateMCQs up to its await, lines 28-43.
\* Without the file triple the else branch evaluates content.substring, which
\* throws on an undefined content: catch and finally run at once.
HandleGenerateMCQs ==
  /\ NumQInteractive
  /\ ~GenerateDisabled
  /\ Len(genRequests) < MaxRequests
  /\ IF IsFileRequest(nqParams)
       THEN /\ genRequests' = Append(genRequests,
                                     FileRequest(nqParams, numQuestions))
            /\ loading' = TRUE
            /\ UNCHANGED alert
       ELSE IF nqParams.content = Undefined
         THEN /\ alert' = "Error"
              /\ loading' = FALSE
              /\ UNCHANGED genRequests
         ELSE /\ genRequests' = Append(genRequests,
                                       TextRequest(nqParams, numQuestions))
              /\ loading' = TRUE
              /\ UNCHANGED alert
  /\ UNCHANGED <<route, nqMounted, nqParams, numQuestions, genResult,
                 screenMcqs>>
  /\ UNCHANGED offNumQ

\* The awaited request settles: lines 37/42 resume, then lines 45-57.
\* generateMCQsFromAPI returns an array or throws; generateMCQsFromFileAPI
\* returns data.mcqs, which may be undefined, or throws.
GenerationSettles ==
  /\ Len(genRequests) > 0
  /\ \E k \in 1..Len(genRequests), outcome \in GenOutcomes :
       /\ outcome = "undefined" => genRequests[k].endpoint = "generate-mcqs-from-file"
       /\ genRequests' = [j \in 1..(Len(genRequests) - 1) |->
                            IF j < k THEN genRequests[j] ELSE genRequests[j + 1]]
       /\ genResult' = outcome
       /\ IF outcome = "rejected" \/ McqsMissing(outcome)
            THEN /\ alert' = "Error"
                 /\ UNCHANGED <<route, screenMcqs>>
            ELSE /\ route' = "MCQScreen"
                 /\ screenMcqs' = "mcqs"
                 /\ UNCHANGED alert
       /\ loading' = FALSE
  /\ UNCHANGED <<nqMounted, nqParams, numQuestions>>
  /\ UNCHANGED offNumQ

\* The button of an alert of this screen (not one of FileUploadScreen's): 'OK'
\* on an error (line 54), 'Go Back' on the missing-content alert (lines 23-25),
\* which pops the screen.
PressAlertButton ==
  /\ alert \in {"Error", "No content provided"}
  /\ uploadError = ""
  /\ alert' = NoAlert
  /\ IF alert = "No content provided"
       THEN route' = nqParams.from /\ nqMounted' = FALSE
       ELSE UNCHANGED <<route, nqMounted>>
  /\ UNCHANGED <<nqParams, numQuestions, loading, genRequests, genResult,
                 screenMcqs>>
  /\ UNCHANGED offNumQ

\* The Back button, lines 93-99: navigation.goBack() pops the screen.  It is
\* not disabled while loading; a request in flight stays in flight and its
\* continuation still runs when it settles.
PressBack ==
  /\ NumQInteractive
  /\ route' = nqParams.from
  /\ nqMounted' = FALSE
  /\ UNCHANGED <<alert, nqParams, numQuestions, loading, genRequests, genResult,
                 screenMcqs>>
  /\ UNCHANGED offNumQ

\* The header's back button on MCQScreen pops it: the screen below is
\* NumQuestions if that is still on the stack (AppNavigator.js, lines 46-50
\* and 71-75).
BackFromMCQScreen ==
  /\ route = "MCQScreen"
  /\ alert = NoAlert
  /\ route' = IF nqMounted THEN "NumQuestions" ELSE nqParams.from
  /\ screenMcqs' = "none"
  /\ UNCHANGED <<alert, nqMounted, nqParams, numQuestions, loading, genRequests,
                 genResult>>
  /\ UNCHANGED offNumQ

(***************************************************************************)
(* FileUploadScreen and services/apiService: processFileAPI.                *)
(* uploadProgress and processingStatus are display state that no handler    *)
(* reads; they and the messages of the progress socket that set them (lines *)
(* 70-78) are left out.                                                     *)
(***************************************************************************)
\* What DocumentPicker.getDocumentAsync hands back (lines 137-154): an asset.
PickedAssets ==
  { [uri |-> "file:///notes.pdf", name |-> "notes.pdf", mimeType |-> "application/pdf"],
    [uri |-> "file:///notes.txt", name |-> "notes.txt", mimeType |-> "text/plain"] }
DocumentTypes == {"document", "book"}

\* apiService.js line 237: fileType.includes('pdf') || fileType.includes('image')
\* || documentType === 'book', over the mime types of PickedAssets.
FileTypeIncludes(type, word) ==
  \/ word = "pdf" /\ type = "application/pdf"
  \/ word = "image" /\ type \in {"image/jpeg", "image/png"}
UsesWebSocket(type, docType) ==
  FileTypeIncludes(type, "pdf") \/ FileTypeIncludes(type, "image") \/ docType = "book"

\* What the server answers with: is_book and the contents of its chapters.
ResultChoices ==
  { [is_book |-> b, chapters |-> c] :
      b \in BOOLEAN, c \in {<<>>, <<"c1">>, <<"c1", "c2">>} }

\* The close codes of a socket's close event: normal closure and an abnormal one.
NormalClosure == 1000
CloseCodes == {NormalClosure, 1006}

\* The messages of the errors a call can end with.
ErrRead == "could not read file"
ErrSocket == "WebSocket error: Connection failed"
ErrClosed == "WebSocket closed unexpectedly: Unknown reason"
ErrServer == "Error processing file"
ErrTimeout == "File processing timed out after 60 seconds"
ErrHttp == "Failed to process file. Please check your file format and try again."
ErrNoChapter == "Cannot read property 'content' of undefined"

\* A processFileAPI call that has not settled yet.  fn, processWholeBook and
\* documentType are what the caller's closure holds; pc is the await the call is
\* suspended at; readyState is that of wsService.ws ("null" while there is no
\* socket or wsService.ws is null); timer is the 60-second timeout; stale says
\* that the screen instance that made the call has unmounted.
NewCall(fn, whole, type, docType) ==
  [fn |-> fn, processWholeBook |-> whole, documentType |-> docType,
   transport |-> IF UsesWebSocket(type, docType) THEN "websocket" ELSE "http",
   pc |-> "readAsStringAsync", readyState |-> "null", timer |-> "unset",
   stale |-> FALSE]

\* Array.prototype.join('\n\n') over chapter contents.
JoinTwo(a, b) ==
  CASE a = "c1" /\ b = "c2" -> "c1\n\nc2"
    [] a = "c2" /\ b = "c1" -> "c2\n\nc1"
    [] a = "c1" /\ b = "c1" -> "c1\n\nc1"
    [] a = "c2" /\ b = "c2" -> "c2\n\nc2"
Join(contents) ==
  IF Len(contents) = 0 THEN ""
  ELSE IF Len(contents) = 1 THEN contents[1]
  ELSE JoinTwo(contents[1], contents[2])

NoNavigation == [screen |-> "none", content |-> "", chapters |-> <<>>]
ToNumQuestions(content) ==
  [screen |-> "NumQuestions", content |-> content, chapters |-> <<>>]
ToChapterSelection(chapters) ==
  [screen |-> "ChapterSelection", content |-> "", chapters |-> chapters]

\* lines 179-196: where handleUpload goes with a result.  "options" opens the
\* book-options modal; "throw" is the TypeError of chapters[0].content.
UploadBranch(call, result) ==
  IF result.is_book /\ Len(result.chapters) > 1
    THEN IF call.documentType = "book" THEN "options" ELSE "chapters"
    ELSE IF Len(result.chapters) = 0 THEN "throw" ELSE "questions"

\* lines 212-234: where processDocument goes with a result.
DocumentBranch(call, result) ==
  IF result.is_book /\ Len(result.chapters) > 1 /\ ~call.processWholeBook
    THEN "chapters"
    ELSE IF call.processWholeBook /\ Len(result.chapters) > 0 THEN "questions"
    ELSE IF Len(result.chapters) = 0 THEN "throw" ELSE "questions"
Branch(call, result) ==
  IF call.fn = "handleUpload" THEN UploadBranch(call, result)
                              ELSE DocumentBranch(call, result)

\* lines 191 and 222-228: the content handed to NumQuestions; the chapters of a
\* whole book joined, else the first chapter.
ContentFirstChapter(call, result) == result.chapters[1]
ContentOf(call, result) ==
  IF call.fn = "processDocument" /\ call.processWholeBook
    THEN Join(result.chapters)
    ELSE result.chapters[1]

\* How a call settled: nothing settled since the last call was started, a
\* rejection, or the result it resolved with.
NoResult == [status |-> "none", is_book |-> FALSE, chapters |-> <<>>]
Rejected == [status |-> "rejected", is_book |-> FALSE, chapters |-> <<>>]
Resolved(result) ==
  [status |-> "resolved", is_book |-> result.is_book, chapters |-> result.chapters]

RemoveAt(s, i) == SubSeq(s, 1, i - 1) \o SubSeq(s, i + 1, Len(s))

UploadQuiet ==
  /\ fileUri = ""
  /\ fileName = ""
  /\ fileType = ""
  /\ documentType = "document"
  /\ isLoading = FALSE
  /\ showBookOptions = FALSE
  /\ calls = <<>>
  /\ uploadError = ""
  /\ navParams = NoNavigation
  /\ uploadMounted = FALSE
  /\ wsCurrent = "null"
  /\ progressSockets = 0
  /\ settledSockets = 0
  /\ callResult = NoResult

\* The screen after its first render: lines 14-27.
UploadInit ==
  /\ route = "FileUpload"
  /\ alert = NoAlert
  /\ fileUri = ""
  /\ fileName = ""
  /\ fileType = ""
  /\ documentType = "document"
  /\ isLoading = FALSE
  /\ showBookOptions = FALSE
  /\ calls = <<>>
  /\ uploadError = ""
  /\ navParams = NoNavigation
  /\ uploadMounted = TRUE
  /\ wsCurrent = "null"
  /\ progressSockets = 0
  /\ settledSockets = 0
  /\ callResult = NoResult

\* A socket that is connecting or open.
Live(readyState) == readyState \in {"CONNECTING", "OPEN"}

\* The cleanup of the effect, lines 36-42: the number of live sockets it
\* closes (ws.current.close() if ws.current), before it sets ws.current to null.
CleanupClosesNone(ws) == 0
CleanupCloses(ws) == IF Live(ws) THEN 1 ELSE 0

\* useEffect([isLoading]), lines 30-43, run with the render that follows a
\* change of isLoading: the cleanup of the last run, then connectWebSocket
\* (lines 62-90) if isLoading is true.
LoadingEffect ==
  IF isLoading' = isLoading
    THEN UNCHANGED <<wsCurrent, progressSockets>>
    ELSE IF isLoading'
      THEN /\ wsCurrent' = "CONNECTING"
           /\ progressSockets' = progressSockets - CleanupCloses(wsCurrent) + 1
      ELSE /\ wsCurrent' = "null"
           /\ progressSockets' = progressSockets - CleanupCloses(wsCurrent)

\* WebSocketService.disconnect, apiService.js lines 73-77: the readyState it
\* leaves the socket in.
Disconnect(readyState) == IF readyState = "OPEN" THEN "CLOSING" ELSE readyState

\* The controls of the screen itself can be pressed: it is focused and neither
\* the modal nor an alert covers it.
UploadInteractive ==
  /\ uploadMounted
  /\ route = "FileUpload"
  /\ alert = NoAlert
  /\ ~showBookOptions

\* disabled props: lines 275, 309, 332 and 357.
PickDisabled == isLoading
ContinueDisabled == fileUri = "" \/ isLoading
ContinuePressable == UploadInteractive /\ ~ContinueDisabled
\* The options of the modal (lines 387-420) carry no disabled prop.
BookOptionPressable == showBookOptions /\ alert = NoAlert

\* handleFilePick, lines 135-163.
HandleFilePick ==
  /\ UploadInteractive
  /\ ~PickDisabled
  /\ \E outcome \in {"canceled", "assets", "throws"} :
       \/ /\ outcome = "assets"
          /\ \E asset \in PickedAssets :
               /\ fileUri' = asset.uri
               /\ fileName' = asset.name
               /\ fileType' = asset.mimeType
          /\ UNCHANGED <<alert, uploadError>>
       \/ /\ outcome = "throws"
          /\ alert' = "Error"
          /\ uploadError' = "Failed to select document"
          /\ UNCHANGED <<fileUri, fileName, fileType>>
       \/ /\ outcome = "canceled"
          /\ UNCHANGED <<alert, uploadError, fileUri, fileName, fileType>>
  /\ UNCHANGED <<route, documentType, isLoading, showBookOptions, calls, navParams,
                 uploadMounted, wsCurrent, progressSockets, settledSockets,
                 callResult>>
  /\ UNCHANGED offUpload

\* The document-type buttons, lines 303-347.
SetDocumentType ==
  /\ UploadInteractive
  /\ ~isLoading
  /\ \E type \in DocumentTypes : documentType' = type
  /\ UNCHANGED <<route, alert, fileUri, fileName, fileType, isLoading,
                 showBookOptions, calls, uploadError, navParams,
                 uploadMounted, wsCurrent, progressSockets, settledSockets,
                 callResult>>
  /\ UNCHANGED offUpload

\* handleUpload up to its await, lines 165-176, and the render that follows.
HandleUpload ==
  /\ ContinuePressable
  /\ Len(calls) < MaxCalls
  /\ isLoading' = TRUE
  /\ LoadingEffect
  /\ calls' = Append(calls, NewCall("handleUpload", FALSE, fileType, documentType))
  /\ callResult' = NoResult
  /\ UNCHANGED <<route, alert, fileUri, fileName, fileType, documentType,
                 showBookOptions, uploadError, navParams, uploadMounted,
                 settledSockets>>
  /\ UNCHANGED offUpload

\* processDocument up to its await, lines 206-210, and the render that follows.
ProcessDocument ==
  /\ BookOptionPressable
  /\ Len(calls) < MaxCalls
  /\ \E processWholeBook \in BOOLEAN :
       calls' = Append(calls, NewCall("processDocument", processWholeBook,
                                      fileType, documentType))
  /\ isLoading' = TRUE
  /\ LoadingEffect
  /\ callResult' = NoResult
  /\ UNCHANGED <<route, alert, fileUri, fileName, fileType, documentType,
                 showBookOptions, uploadError, navParams, uploadMounted,
                 settledSockets>>
  /\ UNCHANGED offUpload

\* Cancel and onRequestClose of the modal, lines 380 and 417.
CancelBookOptions ==
  /\ BookOptionPressable
  /\ showBookOptions' = FALSE
  /\ UNCHANGED <<route, alert, fileUri, fileName, fileType, documentType,
                 isLoading, calls, uploadError, navParams, uploadMounted,
                 wsCurrent, progressSockets, settledSockets,
                 callResult>>
  /\ UNCHANGED offUpload

\* The state updates of a caller's try body and finally (lines 182, 201, 239 and
\* 240) and the render that follows; on an unmounted screen they do nothing.
ScreenAfter(call, options) ==
  /\ IF call.stale
       THEN UNCHANGED <<isLoading, showBookOptions>>
       ELSE /\ isLoading' = FALSE
            /\ showBookOptions' = IF call.fn = "processDocument" THEN FALSE
                                  ELSE IF options THEN TRUE
                                  ELSE showBookOptions
  /\ LoadingEffect

\* The promise of call i has settled with result (Resolved(..) or Rejected);
\* left is the readyState its socket was left in ("none" if the call had no
\* socket).
Settled(i, left, result) ==
  /\ calls' = RemoveAt(calls, i)
  /\ callResult' = result
  /\ settledSockets' = IF Live(left) THEN settledSockets + 1 ELSE settledSockets

\* Call i resolves with result: the caller runs on from its await, lines
\* 179-203 (handleUpload) and 212-241 (processDocument).
Resolves(i, result, left) ==
  LET call == calls[i]
      branch == Branch(call, result)
  IN /\ Settled(i, left, Resolved(result))
     /\ ScreenAfter(call, branch = "options")
     /\ IF branch = "throw"
          THEN /\ alert' = "Error"
               /\ uploadError' = ErrNoChapter
               /\ UNCHANGED <<route, navParams>>
          ELSE /\ UNCHANGED <<alert, uploadError>>
               /\ IF branch = "chapters"
                    THEN /\ route' = "ChapterSelection"
                         /\ navParams' = ToChapterSelection(result.chapters)
                    ELSE IF branch = "questions"
                    THEN /\ route' = "NumQuestions"
                         /\ navParams' = ToNumQuestions(ContentOf(call, result))
                    ELSE UNCHANGED <<route, navParams>>
     /\ UNCHANGED <<fileUri, fileName, fileType, documentType, uploadMounted>>

\* Call i rejects: the caller's catch and finally, lines 197-203 and 235-241.
Rejects(i, message, left) ==
  /\ Settled(i, left, Rejected)
  /\ ScreenAfter(calls[i], FALSE)
  /\ alert' = "Error"
  /\ uploadError' = message
  /\ UNCHANGED <<route, navParams, fileUri, fileName, fileType, documentType,
                 uploadMounted>>

\* Call i stays pending and moves on.
Continues(i, call) ==
  /\ calls' = [calls EXCEPT ![i] = call]
  /\ UNCHANGED <<route, alert, fileUri, fileName, fileType, documentType,
                 isLoading, showBookOptions, uploadError, navParams,
                 uploadMounted, wsCurrent, progressSockets, settledSockets,
                 callResult>>

\* FileSystem.readAsStringAsync settles: apiService.js lines 100-156 (socket
\* created, callbacks set, connect, timer armed; a failure is rejected at line
\* 159) and lines 243-247 (fetch sent; a failure is rethrown at line 270).
ReadSettles ==
  /\ \E i \in DOMAIN calls, ok \in BOOLEAN :
       /\ calls[i].pc = "readAsStringAsync"
       /\ IF calls[i].transport = "websocket"
            THEN IF ok
                   THEN Continues(i, [calls[i] EXCEPT !.pc = "websocket",
                                                      !.readyState = "CONNECTING",
                                                      !.timer = "armed"])
                   ELSE Rejects(i, ErrRead, "none")
            ELSE IF ok
                   THEN Continues(i, [calls[i] EXCEPT !.pc = "fetch"])
                   ELSE Rejects(i, ErrHttp, "none")
  /\ UNCHANGED offUpload

\* The HTTP request settles: apiService.js lines 247-271.
FetchSettles ==
  /\ \E i \in DOMAIN calls :
       /\ calls[i].pc = "fetch"
       /\ \/ \E result \in ResultChoices : Resolves(i, result, "none")
          \/ Rejects(i, ErrHttp, "none")
  /\ UNCHANGED offUpload

\* The socket opens: onopen (lines 37-40) and onOpen (lines 110-120), which
\* sends the process_file command.
SocketOpens ==
  /\ \E i \in DOMAIN calls :
       /\ calls[i].readyState = "CONNECTING"
       /\ Continues(i, [calls[i] EXCEPT !.readyState = "OPEN"])
  /\ UNCHANGED offUpload

\* A 'complete' or an 'error' message arrives: onmessage (lines 42-57) and
\* onMessage (lines 121-133), which disconnects and settles.  Messages of any
\* other status only log.
SocketMessage ==
  /\ \E i \in DOMAIN calls :
       /\ calls[i].readyState = "OPEN"
       /\ \/ \E result \in ResultChoices :
               Resolves(i, result, Disconnect(calls[i].readyState))
          \/ Rejects(i, ErrServer, Disconnect(calls[i].readyState))
  /\ UNCHANGED offUpload

\* The connection fails: onerror (lines 59-62) and onError (134-138).  The
\* platform has set the socket's readyState to CLOSED when it reports the error.
SocketError ==
  /\ \E i \in DOMAIN calls :
       /\ calls[i].readyState \in {"CONNECTING", "OPEN"}
       /\ Rejects(i, ErrSocket, Disconnect("CLOSED"))
  /\ UNCHANGED offUpload

\* The socket closes: onclose (lines 64-68) and onClose (lines 139-144).  A
\* socket that never opened closes abnormally; an open one closes with either
\* code.  After a normal closure the call is still pending and wsService.ws
\* is null.
SocketCloses ==
  /\ \E i \in DOMAIN calls, code \in CloseCodes :
       /\ calls[i].readyState \in {"CONNECTING", "OPEN"}
       /\ calls[i].readyState = "CONNECTING" => code # NormalClosure
       /\ IF code # NormalClosure
            THEN Rejects(i, ErrClosed, "CLOSED")
            ELSE Continues(i, [calls[i] EXCEPT !.readyState = "null"])
  /\ UNCHANGED offUpload

\* The 60-second timer fires: lines 151-156.
TimerFires ==
  /\ \E i \in DOMAIN calls :
       /\ calls[i].timer = "armed"
       /\ IF calls[i].readyState = "OPEN"
            THEN Rejects(i, ErrTimeout, Disconnect(calls[i].readyState))
            ELSE Continues(i, [calls[i] EXCEPT !.timer = "fired"])
  /\ UNCHANGED offUpload

\* The screen's progress socket opens: ws.current.onopen, lines 66-68.
ProgressSocketOpens ==
  /\ wsCurrent = "CONNECTING"
  /\ wsCurrent' = "OPEN"
  /\ UNCHANGED <<route, alert, fileUri, fileName, fileType, documentType,
                 isLoading, showBookOptions, calls, uploadError, navParams,
                 uploadMounted, progressSockets, settledSockets,
                 callResult>>
  /\ UNCHANGED offUpload

\* The screen's progress socket fails or is closed by the server: onerror and
\* onclose, lines 80-86, which only log; ws.current keeps the closed socket.
ProgressSocketCloses ==
  /\ Live(wsCurrent)
  /\ wsCurrent' = "CLOSED"
  /\ progressSockets' = progressSockets - 1
  /\ UNCHANGED <<route, alert, fileUri, fileName, fileType, documentType,
                 isLoading, showBookOptions, calls, uploadError, navParams,
                 uploadMounted, settledSockets,
                 callResult>>
  /\ UNCHANGED offUpload

\* The OK button of an 'Error' alert of this screen.
DismissUploadAlert ==
  /\ alert = "Error"
  /\ uploadError # ""
  /\ alert' = NoAlert
  /\ uploadError' = ""
  /\ UNCHANGED <<route, fileUri, fileName, fileType, documentType, isLoading,
                 showBookOptions, calls, navParams, uploadMounted, wsCurrent,
                 progressSockets, settledSockets,
                 callResult>>
  /\ UNCHANGED offUpload

\* Back from the screen FileUploadScreen navigated to (NumQuestions or
\* ChapterSelection) until the screen below is focused again: FileUpload, or
\* Home if FileUpload has been left.
BackToFileUpload ==
  /\ route = navParams.screen
  /\ alert = NoAlert
  /\ route' = IF uploadMounted THEN "FileUpload" ELSE "Home"
  /\ navParams' = NoNavigation
  /\ UNCHANGED <<alert, fileUri, fileName, fileType, documentType, isLoading,
                 showBookOptions, calls, uploadError, uploadMounted, wsCurrent,
                 progressSockets, settledSockets,
                 callResult>>
  /\ UNCHANGED offUpload

\* Back from FileUpload to Home: the screen unmounts, its state is gone and
\* the effect's cleanup (lines 36-42) runs.  The calls it made go on.
LeaveFileUpload ==
  /\ UploadInteractive
  /\ route' = "Home"
  /\ uploadMounted' = FALSE
  /\ fileUri' = ""
  /\ fileName' = ""
  /\ fileType' = ""
  /\ documentType' = "document"
  /\ isLoading' = FALSE
  /\ showBookOptions' = FALSE
  /\ wsCurrent' = "null"
  /\ progressSockets' = progressSockets - CleanupCloses(wsCurrent)
  /\ calls' = [i \in DOMAIN calls |-> [calls[i] EXCEPT !.stale = TRUE]]
  /\ UNCHANGED <<alert, uploadError, navParams, settledSockets,
                 callResult>>
  /\ UNCHANGED offUpload

\* HomeScreen's 'Upload File' card (HomeScreen.js line 19): a new
\* FileUploadScreen mounts with its initial state.
OpenFileUpload ==
  /\ route = "Home"
  /\ alert = NoAlert
  /\ route' = "FileUpload"
  /\ uploadMounted' = TRUE
  /\ UNCHANGED <<alert, fileUri, fileName, fileType, documentType, isLoading,
                 showBookOptions, calls, uploadError, navParams, wsCurrent,
                 progressSockets, settledSockets,
                 callResult>>
  /\ UNCHANGED offUpload

(***************************************************************************)
(* ChapterSelectionScreen (screens/ChapterSelectionScreen.js) and the       *)
(* params it hands to NumQuestionsScreen.                                   *)
(***************************************************************************)
\* The chapters FileUploadScreen passes: their contents, in chapter order.
ChapterLists == { <<"c1", "c2">> }

\* lines 267-270: the contents of the selected chapters, in selection order,
\* joined.  Indices are 0-based as in the source.
SelectedContent(chapters, selected) ==
  Join([k \in 1..Len(selected) |-> chapters[selected[k] + 1]])

\* Array.prototype.includes and filter(i => i !== index), lines 254-255.
Includes(selected, index) == \E k \in 1..Len(selected) : selected[k] = index
Without(selected, index) == SelectSeq(selected, LAMBDA i : i # index)

\* A params object and the value a destructuring reads from it under key
\* (NumQuestionsScreen line 19): undefined for a key the object lacks.
ReadParam(params, key) ==
  IF key \in DOMAIN params THEN params[key] ELSE Undefined

\* NumQuestionsScreen's route params as it reads them from the object a
\* caller navigated with.
ParamsRead(from, params) ==
  [from |-> from,
   content |-> ReadParam(params, "content"),
   fileUri |-> ReadParam(params, "fileUri"),
   fileName |-> ReadParam(params, "fileName"),
   fileType |-> ReadParam(params, "fileType")]

ChapterQuiet ==
  /\ csChapters = <<>>
  /\ selectedChapters = <<>>

\* The screen after its first render: lines 249-251.
ChapterInit ==
  /\ route = "ChapterSelection"
  /\ alert = NoAlert
  /\ csChapters \in ChapterLists
  /\ selectedChapters = <<>>

ChapterInteractive ==
  /\ route = "ChapterSelection"
  /\ alert = NoAlert
  /\ csChapters # <<>>

\* The value toggleChapterSelection(index) sets, lines 254-258.
ToggleAlwaysAppends(selected, index) == Append(selected, index)
Toggle(selected, index) ==
  IF Includes(selected, index)
    THEN Without(selected, index)
    ELSE Append(selected, index)

\* The Continue button's disabled prop, line 322.
ContinueChaptersDisabled == Len(selectedChapters) = 0

\* A chapter row is pressed: toggleChapterSelection(index), lines 253-259, 289.
ToggleChapterSelection ==
  /\ ChapterInteractive
  /\ \E index \in 0..(Len(csChapters) - 1) :
       selectedChapters' = Toggle(selectedChapters, index)
  /\ UNCHANGED <<route, alert, csChapters, numqVars>>
  /\ UNCHANGED offChapter

\* The Continue button is pressed (disabled while nothing is selected, line
\* 322): handleContinue, lines 261-274, and the first render of the NumQuestions
\* screen it navigates to (NumQuestionsScreen lines 15-26).
HandleContinue ==
  /\ ChapterInteractive
  /\ ~ContinueChaptersDisabled
  /\ IF Len(selectedChapters) = 0
       THEN /\ alert' = "Error"
            /\ UNCHANGED <<route, numqVars>>
       ELSE LET params == [text |-> SelectedContent(csChapters, selectedChapters)]
            IN /\ route' = "NumQuestions"
               /\ nqMounted' = TRUE
               /\ nqParams' = ParamsRead("ChapterSelection", params)
               /\ alert' = IF NoContent(nqParams') THEN "No content provided"
                           ELSE NoAlert
               /\ numQuestions' = InitialNumQuestions
               /\ loading' = FALSE
               /\ UNCHANGED <<genRequests, genResult, screenMcqs>>
  /\ UNCHANGED <<csChapters, selectedChapters>>
  /\ UNCHANGED offChapter

(***************************************************************************)
(* MCQScreen (screens/MCQResultScreen.js, second component): the questions *)
(* as the backend returned them, {question, options, correct_answer}.      *)
(***************************************************************************)
\* The options lists a backend can return for a question whose correct
\* answer is "a": "a" is among them no, one or several times.
BackendOptions == UNION { [1..n -> {"a", "b"}] : n \in 0..MaxOptions }
BackendChoices == { [correct_answer |-> "a", options |-> o] : o \in BackendOptions }
BackendLists ==
  UNION { { [i \in 1..n |-> [question |-> i,
                             correct_answer |-> f[i].correct_answer,
                             options |-> f[i].options]] :
            f \in [1..n -> BackendChoices] } : n \in 0..MaxQuestions }

\* line 278: mcq.options.filter(option => option !== mcq.correct_answer)
FilterNothing(options, answer) == options
FilterOptions(options, answer) == SelectSeq(options, LAMBDA option : option # answer)

\* formatMCQsForDownload, lines 274-280.
FormatMCQsForDownload(ms) ==
  [i \in 1..Len(ms) |->
     [question |-> ms[i].question,
      answer |-> ms[i].correct_answer,
      distractors |-> FilterOptions(ms[i].options, ms[i].correct_answer)]]

McqScreenQuiet == backendMcqs = <<>>

\* MCQScreen has just been navigated to with the generated questions.
McqScreenInit ==
  /\ route = "MCQScreen"
  /\ alert = NoAlert
  /\ backendMcqs \in BackendLists
  /\ AssessQuiet

\* 'Take Assessment', lines 331-339; the button is not rendered for an empty
\* list (lines 237-249).
TakeAssessment ==
  /\ route = "MCQScreen"
  /\ alert = NoAlert
  /\ Len(backendMcqs) > 0
  /\ route' = "MCQAssessment"
  /\ generatedMCQs' = FormatMCQsForDownload(backendMcqs)
  /\ mcqs' = <<>>
  /\ currentQuestion' = 0
  /\ renderedQuestion' = 0
  /\ selectedAnswers' = EmptyObject
  /\ results' = <<>>
  /\ answerAt' = <<>>
  /\ pressed' = EmptyObject
  /\ UNCHANGED <<alert, backendMcqs>>
  /\ UNCHANGED offMcqScreen

\* The stack header's back button on the assessment pops it and returns to
\* MCQScreen (AppNavigator.js).
BackToMCQScreen ==
  /\ route = "MCQAssessment"
  /\ Len(backendMcqs) > 0
  /\ route' = "MCQScreen"
  /\ generatedMCQs' = <<>>
  /\ mcqs' = <<>>
  /\ currentQuestion' = 0
  /\ renderedQuestion' = 0
  /\ selectedAnswers' = EmptyObject
  /\ results' = <<>>
  /\ answerAt' = <<>>
  /\ pressed' = EmptyObject
  /\ UNCHANGED <<alert, backendMcqs>>
  /\ UNCHANGED offMcqScreen

(***************************************************************************)
(* processFileWithWebSocket (services/apiService.js, lines 96-162) and the *)
(* WebSocketService it creates (lines 18-93): one call, event by event,    *)
(* from the creation of the promise until its socket is gone.              *)
(***************************************************************************)
\* Math.random().toString(36).substring(2, 15): two draws can give different
\* strings or the same one.
ClientIds == {"k1", "k2"}

\* data.status of a message the server sends; "progress" stands for every
\* status other than 'complete' and 'error', "unparsable" for a message
\* JSON.parse throws on (lines 43-56).
MessageStatuses == {"progress", "complete", "error", "unparsable"}
MessageData == {"d1", "d2"}

NoEvent == [type |-> "none", status |-> "none", data |-> "none"]
Event(type, status, data) == [type |-> type, status |-> status, data |-> data]

Pending == [state |-> "pending", value |-> "none"]

\* resolve(value) and reject(error) of the promise: the first call settles
\* it, later calls do nothing.
SettleLastWins(promise, state, value) == [state |-> state, value |-> value]
Settle(promise, state, value) ==
  IF promise.state = "pending" THEN [state |-> state, value |-> value]
  ELSE promise

\* WebSocketService.sendMessage, lines 79-87: the number of messages it sends.
Sends(readyState) == IF readyState = "OPEN" THEN 1 ELSE 0

WsCallQuiet ==
  /\ sessionClientId = "none"
  /\ wsPc = "idle"
  /\ wsClientId = "none"
  /\ wsReadyState = "null"
  /\ wsSent = 0
  /\ wsTimer = "unset"
  /\ wsPromise = Pending
  /\ wsEvent = NoEvent

\* processFileWithWebSocket has been called from a FileUploadScreen and its
\* executor awaits the file read (FileUploadScreen.js line 25, apiService.js
\* lines 97-102).
WsCallInit ==
  /\ sessionClientId \in ClientIds
  /\ wsPc = "readAsStringAsync"
  /\ wsClientId = "none"
  /\ wsReadyState = "null"
  /\ wsSent = 0
  /\ wsTimer = "unset"
  /\ wsPromise = Pending
  /\ wsEvent = NoEvent

\* The file read settles: lines 100-156 (service constructed with its own
\* clientId, callbacks set, connect, timer armed) or the catch, lines 157-160.
WsReadSettles ==
  /\ wsPc = "readAsStringAsync"
  /\ \/ \E id \in ClientIds :
          /\ wsClientId' = id
          /\ wsReadyState' = "CONNECTING"
          /\ wsTimer' = "armed"
          /\ UNCHANGED wsPromise
       \/ /\ wsPromise' = Settle(wsPromise, "rejected", ErrRead)
          /\ UNCHANGED <<wsClientId, wsReadyState, wsTimer>>
  /\ wsPc' = "done"
  /\ wsEvent' = Event("read", "none", "none")
  /\ UNCHANGED <<sessionClientId, wsSent>>
  /\ UNCHANGED offWsCall

\* The socket opens: onopen (lines 37-40) calls onOpen (lines 110-120), which
\* sends the process_file command.
WsOpens ==
  /\ wsReadyState = "CONNECTING"
  /\ wsReadyState' = "OPEN"
  /\ wsSent' = wsSent + Sends(wsReadyState')
  /\ wsEvent' = Event("open", "none", "none")
  /\ UNCHANGED <<sessionClientId, wsPc, wsClientId, wsTimer, wsPromise>>
  /\ UNCHANGED offWsCall

\* A message arrives (also while the socket is closing): onmessage (lines
\* 42-57) and onMessage (lines 121-133).
WsMessage ==
  /\ wsReadyState \in {"OPEN", "CLOSING"}
  /\ \E status \in MessageStatuses, data \in MessageData :
       /\ wsEvent' = Event("message", status, data)
       /\ IF status = "complete"
            THEN /\ wsReadyState' = Disconnect(wsReadyState)
                 /\ wsPromise' = Settle(wsPromise, "resolved", data)
            ELSE IF status = "error"
            THEN /\ wsReadyState' = Disconnect(wsReadyState)
                 /\ wsPromise' = Settle(wsPromise, "rejected", ErrServer)
            ELSE UNCHANGED <<wsReadyState, wsPromise>>
  /\ UNCHANGED <<sessionClientId, wsPc, wsClientId, wsSent, wsTimer>>
  /\ UNCHANGED offWsCall

\* The connection fails: onerror (lines 59-62) and onError (lines 134-138).
\* The platform has set readyState to CLOSED when it reports the error.
WsError ==
  /\ wsReadyState \in {"CONNECTING", "OPEN", "CLOSING"}
  /\ wsReadyState' = Disconnect("CLOSED")
  /\ wsPromise' = Settle(wsPromise, "rejected", ErrSocket)
  /\ wsEvent' = Event("error", "none", "none")
  /\ UNCHANGED <<sessionClientId, wsPc, wsClientId, wsSent, wsTimer>>
  /\ UNCHANGED offWsCall

\* The socket closes: onclose (lines 64-68) and onClose (lines 139-144); a
\* socket that never opened closes abnormally.
WsCloses ==
  /\ wsReadyState \in {"CONNECTING", "OPEN", "CLOSING", "CLOSED"}
  /\ \E code \in CloseCodes :
       /\ wsReadyState = "CONNECTING" => code # NormalClosure
       /\ wsEvent' = Event("close", "none", code)
       /\ wsPromise' = IF code # NormalClosure
                          THEN Settle(wsPromise, "rejected", ErrClosed)
                          ELSE wsPromise
  /\ wsReadyState' = "null"
  /\ UNCHANGED <<sessionClientId, wsPc, wsClientId, wsSent, wsTimer>>
  /\ UNCHANGED offWsCall

\* The 60-second timer fires: lines 151-156.
WsTimerFires ==
  /\ wsTimer = "armed"
  /\ wsTimer' = "fired"
  /\ wsEvent' = Event("timer", "none", "none")
  /\ IF wsReadyState = "OPEN"
       THEN /\ wsReadyState' = Disconnect(wsReadyState)
            /\ wsPromise' = Settle(wsPromise, "rejected", ErrTimeout)
       ELSE UNCHANGED <<wsReadyState, wsPromise>>
  /\ UNCHANGED <<sessionClientId, wsPc, wsClientId, wsSent>>
  /\ UNCHANGED offWsCall

(***************************************************************************)
(* generateMCQsFromAPI (services/apiService.js, lines 164-227): one call,  *)
(* await by await.                                                         *)
(***************************************************************************)
\* The arguments of a call: a text and a number of questions.
ContentChoices == {"t1", "t2"}
NumChoices == {MinimumValue, InitialNumQuestions, MaximumValue}

\* networkState.isConnected: true, false, or null while the state is unknown.
NetStates == {"true", "false", "null"}

\* The mcqs field of the parsed reply: absent, null, or a list.
NonEmptyMcqs == <<"q1", "q2">>
McqsFields == {Undef, Null, Arr(<<>>), Arr(NonEmptyMcqs)}

\* What the server can answer: an OK response whose body is not JSON, is the
\* JSON null, or is an object with or without mcqs; or a non-OK response
\* with a text.
OkBodies ==
  {[json |-> "invalid"], [json |-> "null"]}
    \cup {[json |-> "object", mcqs |-> f] : f \in McqsFields}
ErrorTexts == {"", "Internal Server Error", "upstream timeout"}
Responses ==
  {[ok |-> TRUE, body |-> b] : b \in OkBodies}
    \cup {[ok |-> FALSE, text |-> t] : t \in ErrorTexts}
NoResponse == [ok |-> "none"]

\* The errors raised inside the try block, by what raised them.
TimerError == [by |-> "timer", message |-> "Request timeout after 60 seconds"]
FetchError == [by |-> "fetch", message |-> "Network request failed"]
ServerError(text) == [by |-> "status", message |-> text]
ParseError == [by |-> "json", message |-> "JSON Parse error"]
TypeError == [by |-> "data.mcqs", message |-> "null is not an object"]

\* error.message.includes(word), lines 219 and 221, over the messages above;
\* the message of a server error is 'Server error (status): ' and the text.
MessageIncludes(error, word) ==
  \/ word = "timeout" /\ error = TimerError
  \/ word = "timeout" /\ error = ServerError("upstream timeout")
  \/ word = "Network request failed" /\ error = FetchError

ErrNoInternet == "No internet connection. Please check your network and try again."
ErrTooLong == "The server took too long to respond. Try with a shorter text or fewer questions."
ErrCannotConnect == "Cannot connect to server. Please check if the server is running and try again."
ErrConnection == "Connection error"
ErrNetInfo == "NetInfo.fetch rejected"

GenPending == [kind |-> "pending", value |-> "none"]
Returned(value) == [kind |-> "returned", value |-> value]
Thrown(message) == [kind |-> "thrown", value |-> message]

\* The catch block, lines 216-226.
Rethrow(error) ==
  IF MessageIncludes(error, "timeout") THEN Thrown(ErrTooLong)
  ELSE IF MessageIncludes(error, "Network request failed") THEN Thrown(ErrCannotConnect)
  ELSE Thrown(ErrConnection)

\* line 215: data.mcqs || []
OrNothing(field) == field
OrEmpty(field) == IF field.kind \in {"undefined", "null"} THEN Arr(<<>>) ELSE field

GenCallQuiet ==
  /\ gmContent = "none"
  /\ gmNum = 0
  /\ gmPc = "idle"
  /\ gmNet = "none"
  /\ gmFetches = <<>>
  /\ gmTimer = "unset"
  /\ gmResponse = NoResponse
  /\ gmOutcome = GenPending

\* The call has started and awaits NetInfo.fetch(), line 166.
GenCallInit ==
  /\ gmContent \in ContentChoices
  /\ gmNum \in NumChoices
  /\ gmPc = "NetInfo.fetch"
  /\ gmNet = "none"
  /\ gmFetches = <<>>
  /\ gmTimer = "unset"
  /\ gmResponse = NoResponse
  /\ gmOutcome = GenPending

\* NetInfo.fetch() settles: lines 166-203 up to the await of the race.  A
\* rejection and the 'No internet connection' error are outside the try.
NetInfoSettles ==
  /\ gmPc = "NetInfo.fetch"
  /\ \/ /\ gmNet' = "rejected"
        /\ gmOutcome' = Thrown(ErrNetInfo)
        /\ gmPc' = "done"
        /\ UNCHANGED <<gmFetches, gmTimer>>
     \/ \E state \in NetStates :
          /\ gmNet' = state
          /\ IF state # "true"
               THEN /\ gmOutcome' = Thrown(ErrNoInternet)
                    /\ gmPc' = "done"
                    /\ UNCHANGED <<gmFetches, gmTimer>>
               ELSE /\ gmTimer' = "armed"
                    /\ gmFetches' = Append(gmFetches,
                         [text |-> gmContent, num_questions |-> gmNum])
                    /\ gmPc' = "Promise.race"
                    /\ UNCHANGED gmOutcome
  /\ UNCHANGED <<gmContent, gmNum, gmResponse>>
  /\ UNCHANGED offGenCall

\* The fetch promise resolves first: lines 203-211 up to the next await.
ResponseArrives ==
  /\ gmPc = "Promise.race"
  /\ \E response \in Responses :
       /\ gmResponse' = response
       /\ gmPc' = IF response.ok THEN "response.json" ELSE "response.text"
  /\ UNCHANGED <<gmContent, gmNum, gmNet, gmFetches, gmTimer, gmOutcome>>
  /\ UNCHANGED offGenCall

\* The fetch promise rejects first: line 203 throws into the catch.
FetchRejects ==
  /\ gmPc = "Promise.race"
  /\ gmOutcome' = Rethrow(FetchError)
  /\ gmPc' = "done"
  /\ UNCHANGED <<gmContent, gmNum, gmNet, gmFetches, gmTimer, gmResponse>>
  /\ UNCHANGED offGenCall

\* The 60 seconds elapse, lines 179-181: the timeout promise rejects, which
\* ends the race if it is still on and has no effect after it.
TimeoutElapses ==
  /\ gmTimer = "armed"
  /\ gmTimer' = "fired"
  /\ IF gmPc = "Promise.race"
       THEN gmOutcome' = Rethrow(TimerError) /\ gmPc' = "done"
       ELSE UNCHANGED <<gmOutcome, gmPc>>
  /\ UNCHANGED <<gmContent, gmNum, gmNet, gmFetches, gmResponse>>
  /\ UNCHANGED offGenCall

\* response.text() of a non-OK response settles: lines 206-208, then the catch.
TextSettles ==
  /\ gmPc = "response.text"
  /\ gmOutcome' = Rethrow(ServerError(gmResponse.text))
  /\ gmPc' = "done"
  /\ UNCHANGED <<gmContent, gmNum, gmNet, gmFetches, gmTimer, gmResponse>>
  /\ UNCHANGED offGenCall

\* response.json() of an OK response settles: lines 211-215, or the catch.
JsonSettles ==
  /\ gmPc = "response.json"
  /\ gmOutcome' =
       IF gmResponse.body.json = "invalid" THEN Rethrow(ParseError)
       ELSE IF gmResponse.body.json = "null" THEN Rethrow(TypeError)
       ELSE Returned(OrEmpty(gmResponse.body.mcqs))
  /\ gmPc' = "done"
  /\ UNCHANGED <<gmContent, gmNum, gmNet, gmFetches, gmTimer, gmResponse>>
  /\ UNCHANGED offGenCall

(***************************************************************************)
(* Specifications.  Each one runs one screen (or helper) from the state it *)
(* has when it is entered; the variables of the others keep their initial  *)
(* values.                                                                 *)
(***************************************************************************)
\* SpecGrade: the result screen and the report generator on every pair
\* 0 <= score <= total <= MaxTotal.
InitGrade ==
  /\ GradeInit /\ AppQuiet /\ AssessQuiet /\ ExportQuiet /\ NumQQuiet
  /\ UploadQuiet /\ ChapterQuiet /\ McqScreenQuiet /\ WsCallQuiet /\ GenCallQuiet
NextGrade == RenderResultScreen \/ ReportComputeGrade
SpecGrade == InitGrade /\ [][NextGrade]_vars

\* SpecAssess: one visit of MCQAssessmentScreen, up to MCQResult and back.
InitAssess ==
  /\ AssessInit /\ GradeQuiet /\ ExportQuiet /\ NumQQuiet /\ UploadQuiet
  /\ ChapterQuiet /\ McqScreenQuiet /\ WsCallQuiet /\ GenCallQuiet
NextAssess ==
  \/ FormatAndShuffle
  \/ HandleAnswer
  \/ PressPrevious
  \/ PressNext
  \/ RenderQuestion
  \/ HandleSubmit
  \/ DismissIncomplete
  \/ BackToAssessment
SpecAssess == InitAssess /\ [][NextAssess]_vars

\* SpecExport: a call of generateMCQFile or of generateResultReport with every
\* outcome of the platform's print, write and share calls.
InitExport ==
  /\ ExportQuiet /\ AppQuiet /\ GradeQuiet /\ AssessQuiet /\ NumQQuiet
  /\ UploadQuiet /\ ChapterQuiet /\ McqScreenQuiet /\ WsCallQuiet /\ GenCallQuiet
NextExport ==
  \/ GenerateMCQFile
  \/ GenerateResultReport
  \/ PrintToFileSettles
  \/ WriteAsStringSettles
  \/ IsAvailableSettles
  \/ ShareSettles
SpecExport == InitExport /\ [][NextExport]_vars

\* SpecNumQ: one visit of NumQuestionsScreen, on to MCQScreen and back.
InitNumQ ==
  /\ NumQInit /\ GradeQuiet /\ AssessQuiet /\ ExportQuiet /\ UploadQuiet
  /\ ChapterQuiet /\ McqScreenQuiet /\ WsCallQuiet /\ GenCallQuiet
NextNumQ ==
  \/ SlideTo
  \/ HandleGenerateMCQs
  \/ GenerationSettles
  \/ PressAlertButton
  \/ PressBack
  \/ BackFromMCQScreen
SpecNumQ == InitNumQ /\ [][NextNumQ]_vars

\* SpecUpload: one visit of FileUploadScreen with every behaviour of the picker,
\* the server and the sockets of its processFileAPI calls.
InitUpload ==
  /\ UploadInit /\ GradeQuiet /\ AssessQuiet /\ ExportQuiet /\ NumQQuiet
  /\ ChapterQuiet /\ McqScreenQuiet /\ WsCallQuiet /\ GenCallQuiet
NextUpload ==
  \/ HandleFilePick
  \/ SetDocumentType
  \/ HandleUpload
  \/ ProcessDocument
  \/ CancelBookOptions
  \/ ReadSettles
  \/ FetchSettles
  \/ SocketOpens
  \/ SocketMessage
  \/ SocketError
  \/ SocketCloses
  \/ TimerFires
  \/ ProgressSocketOpens
  \/ ProgressSocketCloses
  \/ DismissUploadAlert
  \/ BackToFileUpload
  \/ LeaveFileUpload
  \/ OpenFileUpload
SpecUpload == InitUpload /\ [][NextUpload]_vars

\* SpecMcqScreen: a visit of MCQScreen with every list the backend can return,
\* on to the assessment it starts and back.
InitMcqScreen ==
  /\ McqScreenInit /\ GradeQuiet /\ ExportQuiet /\ NumQQuiet /\ UploadQuiet
  /\ ChapterQuiet /\ WsCallQuiet /\ GenCallQuiet
NextMcqScreen ==
  \/ TakeAssessment
  \/ FormatAndShuffle
  \/ BackToMCQScreen
SpecMcqScreen == InitMcqScreen /\ [][NextMcqScreen]_vars

\* SpecWsCall: one processFileWithWebSocket call with every order of socket
\* events, messages and timer expiry.
InitWsCall ==
  /\ WsCallInit /\ AppQuiet /\ GradeQuiet /\ AssessQuiet /\ ExportQuiet
  /\ NumQQuiet /\ UploadQuiet /\ ChapterQuiet /\ McqScreenQuiet /\ GenCallQuiet
NextWsCall ==
  \/ WsReadSettles
  \/ WsOpens
  \/ WsMessage
  \/ WsError
  \/ WsCloses
  \/ WsTimerFires
SpecWsCall == InitWsCall /\ [][NextWsCall]_vars

\* SpecGenCall: one generateMCQsFromAPI call with every reply of the network.
InitGenCall ==
  /\ GenCallInit /\ AppQuiet /\ GradeQuiet /\ AssessQuiet /\ ExportQuiet
  /\ NumQQuiet /\ UploadQuiet /\ ChapterQuiet /\ McqScreenQuiet /\ WsCallQuiet
NextGenCall ==
  \/ NetInfoSettles
  \/ ResponseArrives
  \/ FetchRejects
  \/ TimeoutElapses
  \/ TextSettles
  \/ JsonSettles
SpecGenCall == InitGenCall /\ [][NextGenCall]_vars

\* SpecRequests: the two screens that issue network requests side by side, a
\* visit of NumQuestionsScreen or a visit of FileUploadScreen.
InitRequests == InitNumQ \/ InitUpload
NextRequests == NextNumQ \/ NextUpload
SpecRequests == InitRequests /\ [][NextRequests]_vars

\* SpecFlow: the two screens that lead to MCQScreen and to MCQResult side by
\* side, a visit of NumQuestionsScreen or a visit of MCQAssessmentScreen.
InitFlow == InitNumQ \/ InitAssess
NextFlow == NextNumQ \/ NextAssess
SpecFlow == InitFlow /\ [][NextFlow]_vars

\* SpecChapters: a visit of ChapterSelectionScreen, on to the NumQuestions
\* screen it navigates to, beside the visits of NumQuestionsScreen from its
\* other callers.
InitChapters ==
  \/ /\ ChapterInit /\ NumQQuiet /\ GradeQuiet /\ AssessQuiet /\ ExportQuiet
     /\ UploadQuiet /\ McqScreenQuiet /\ WsCallQuiet /\ GenCallQuiet
  \/ InitNumQ
NextChapters ==
  \/ ToggleChapterSelection
  \/ HandleContinue
  \/ NextNumQ
SpecChapters == InitChapters /\ [][NextChapters]_vars

(***************************************************************************)
(* Claims about the percentage and the grade (SpecGrade).                  *)
(***************************************************************************)
Grades == {"A", "B", "C", "D", "F"}

\* g is the grade the stated partition assigns to percentage p.
PartitionOK(p, g) ==
  /\ g \in Grades
  /\ (g = "A") <=> (p >= 90)
  /\ (g = "B") <=> (80 <= p /\ p <= 89)
  /\ (g = "C") <=> (70 <= p /\ p <= 79)
  /\ (g = "D") <=> (60 <= p /\ p <= 69)
  /\ (g = "F") <=> (p < 60)

\* C4: the grade shown by MCQResultScreen and the grade written by
\* generateResultReport partition the percentage at 90/80/70/60 (A iff >= 90,
\* B iff 80..89, C iff 70..79, D iff 60..69, F iff < 60), and both places give
\* the same grade for the same (score, total).
C4_GradePartition ==
  /\ rendered => PartitionOK(percentage, grade)
  /\ reported => PartitionOK(reportPercentage, reportGrade)
  /\ (rendered /\ reported) => grade = reportGrade

\* C4 witness: the boundary below A, 89 percent, graded B in both places.
C4_Witness ==
  /\ rendered /\ reported
  /\ percentage = 89 /\ grade = "B"
  /\ reportPercentage = 89 /\ reportGrade = "B"

\* The exact value 100*score/total lies halfway between two integers.
ExactTie(s, t) == t > 0 /\ (200 * s) % (2 * t) = t

\* C5 as stated: percentage is the exact round-half-up of 100*score/total
\* (0 when total = 0), an integer in 0..100, equal to 100 iff score = total
\* with total > 0, and non-decreasing in score for a fixed total.
C5_Original ==
  /\ rendered =>
       /\ percentage = (IF total > 0 THEN RoundHalfUp(100 * score, total) ELSE 0)
       /\ percentage \in 0..100
       /\ (percentage = 100) <=> (score = total /\ total > 0)
       /\ \A s2 \in score..total : ScreenPercentage(s2, total) >= percentage
  /\ reported =>
       /\ reportPercentage = (IF total > 0 THEN RoundHalfUp(100 * score, total) ELSE 0)
       /\ reportPercentage \in 0..100
       /\ (reportPercentage = 100) <=> (score = total /\ total > 0)
       /\ \A s2 \in score..total : ReportPercentage(s2, total) >= reportPercentage

\* What C5 amended says of one computed percentage p.
PercentageOK(p, s, t) ==
  /\ t = 0 => p = 0
  /\ t > 0 => \/ p = RoundHalfUp(100 * s, t)
              \/ ExactTie(s, t) /\ p = RoundHalfUp(100 * s, t) - 1
  /\ p \in 0..100
  /\ (p = 100) <=> (t > 0 /\ 200 * s >= 199 * t)
  /\ (s = t /\ t > 0) => p = 100
  /\ (p = 100 /\ t < 200) => s = t

\* C5 (amended): percentage is 0 when total = 0 and otherwise the round-half-up
\* of 100*score/total, except that on an exact tie the double evaluation may
\* give the integer below; it is an integer in 0..100; it is 100 iff
\* 200*score >= 199*total (total > 0), so it is 100 whenever score = total and,
\* for total < 200, only then; it is non-decreasing in score for a fixed total.
C5_Percentage ==
  /\ rendered =>
       /\ PercentageOK(percentage, score, total)
       /\ \A s2 \in score..total : ScreenPercentage(s2, total) >= percentage
  /\ reported =>
       /\ PercentageOK(reportPercentage, score, total)
       /\ \A s2 \in score..total : ReportPercentage(s2, total) >= reportPercentage

\* C5 witness: 199 of 200 is displayed as 100 percent.
C5_Witness ==
  /\ rendered /\ reported
  /\ score = 199 /\ total = 200
  /\ percentage = 100 /\ reportPercentage = 100

(***************************************************************************)
(* Claims about the assessment's score (SpecAssess).                       *)
(***************************************************************************)
\* The 0-based question indices whose selected option equals the correct answer.
CorrectSet(ms, sa) ==
  { i \in 0..(Len(ms) - 1) : Get(sa, i) = ms[i + 1].correctAnswer }

\* C1: whenever MCQResult has been navigated to, the passed score is the number
\* of question indices i in 0..N-1 whose selected option string equals that
\* question's correctAnswer string (and so also the number of result entries
\* whose userAnswer equals their correctAnswer); nothing else contributes.
C1_ScoreCountsMatches ==
  route = "MCQResult" =>
    /\ score = Cardinality(CorrectSet(mcqs, selectedAnswers))
    /\ score = Cardinality({ i \in 1..Len(results) :
                               results[i].userAnswer = results[i].correctAnswer })

\* C1 witness: two questions submitted, one answered correctly and one not.
C1_Witness ==
  /\ route = "MCQResult"
  /\ Len(mcqs) = 2
  /\ score = 1
  /\ Cardinality(CorrectSet(mcqs, selectedAnswers)) = 1

\* C2: whenever MCQResult has been navigated to, 0 <= score <= total and total
\* is the number of questions of the assessment.
C2_ScoreBounded ==
  route = "MCQResult" =>
    /\ 0 <= score
    /\ score <= total
    /\ total = Len(generatedMCQs)
    /\ total = Len(mcqs)

\* C2 witness: a submission with every question answered correctly.
C2_Witness ==
  /\ route = "MCQResult"
  /\ total = 2
  /\ score = total

\* b is a with exactly the answer of question i changed, from a non-matching
\* option to the matching one.
FixesOne(ms, a, b, i) ==
  /\ a[i] # ms[i + 1].correctAnswer
  /\ b[i] = ms[i + 1].correctAnswer
  /\ \A j \in 0..(Len(ms) - 1) : j # i => b[j] = a[j]

\* C3: for the complete answers selected and any other complete answers b of the
\* same questions, if every question answered correctly in the first is
\* answered correctly in b, b's score is >= the first score; and if b differs
\* in exactly one answer, changed from non-matching to matching, b's score is
\* the first score + 1.
C3_Monotonic ==
  (Len(mcqs) > 0 /\ KeyCount(selectedAnswers) = Len(mcqs)) =>
    \A b \in CompleteAnswers(mcqs) :
      /\ CorrectSet(mcqs, selectedAnswers) \subseteq CorrectSet(mcqs, b)
           => SubmitScore(mcqs, b) >= SubmitScore(mcqs, selectedAnswers)
      /\ (\E i \in 0..(Len(mcqs) - 1) : FixesOne(mcqs, selectedAnswers, b, i))
           => SubmitScore(mcqs, b) = SubmitScore(mcqs, selectedAnswers) + 1

\* C3 witness: a submission with both questions answered wrongly, so that each
\* single correction raises the score.
C3_Witness ==
  /\ route = "MCQResult"
  /\ total = 2
  /\ score = 0
  /\ \E b \in CompleteAnswers(mcqs) :
       \E i \in 0..1 : FixesOne(mcqs, selectedAnswers, b, i)

(***************************************************************************)
(* Claims about the export helpers (SpecExport).                           *)
(***************************************************************************)
\* The list argument is null, undefined or an empty array.
EmptyArgument(list) ==
  list.kind \in {"null", "undefined"} \/ list.items = <<>>

\* C6: generateMCQFile called with a null, undefined or empty MCQ list shows
\* the alert 'No MCQs to download' and nothing else, returns false at once, and
\* makes no print, write or share call, for either format.
C6_EmptyMcqsShortCircuit ==
  (expFn = "generateMCQFile" /\ EmptyArgument(expList)) =>
    /\ expPc = "done"
    /\ expAlerts = <<"No MCQs to download">>
    /\ expReturn = "false"
    /\ printCalls = 0
    /\ writeCalls = 0
    /\ shareCalls = 0
    /\ expFileUri = Undefined

\* C6 witness: generateMCQFile([], 'txt') has returned.
C6_Witness ==
  /\ expFn = "generateMCQFile"
  /\ expList = Arr(<<>>)
  /\ expFormat = "txt"
  /\ expPc = "done"
  /\ expReturn = "false"

\* C7 as stated: generateResultReport called with an empty results list
\* short-circuits with a message: it ends at once with an alert shown and no
\* report is printed or written and no share call is made.
C7_Original ==
  (expFn = "generateResultReport" /\ expList = Arr(<<>>)) =>
    /\ expPc = "done"
    /\ Len(expAlerts) > 0
    /\ printCalls = 0
    /\ writeCalls = 0
    /\ shareCalls = 0

(***************************************************************************)
(* Claims about NumQuestionsScreen (SpecNumQ).                             *)
(***************************************************************************)
\* C9: while the screen is mounted, loading is true exactly while one of its
\* generation requests is in flight, and at most one is: Generate is disabled
\* while loading, and loading is false again once the request has settled,
\* whether it brought MCQs, brought none or failed.
C9_LoadingTracksRequest ==
  /\ Len(genRequests) <= 1
  /\ nqMounted => (loading <=> Len(genRequests) = 1)
  /\ (nqMounted /\ genResult # "none" /\ genRequests = <<>>) => ~loading

\* C9 witness: a request settled without MCQs, the alert is up and loading is
\* false again.
C9_Witness ==
  /\ nqMounted
  /\ genResult = "empty"
  /\ genRequests = <<>>
  /\ alert = "Error"
  /\ ~loading

(***************************************************************************)
(* Claims about FileUploadScreen and processFileWithWebSocket (SpecUpload). *)
(***************************************************************************)
\* calls holds exactly the processFileAPI calls that have not settled.
OutstandingCalls == Len(calls)

\* C8 as stated: at most one processFileAPI call is outstanding at any moment,
\* and while one is outstanding no control that starts a call (Continue, the
\* two options of the book-options modal) can be pressed.
C8_Original ==
  /\ OutstandingCalls <= 1
  /\ OutstandingCalls = 1 => ~(ContinuePressable \/ BookOptionPressable)

\* C10 as stated: a processFileWithWebSocket call that nothing else has
\* settled is rejected by its 60-second timer, so once the timer of a call has
\* fired the call is no longer pending.
C10_Original ==
  \A i \in DOMAIN calls : calls[i].timer # "fired"

\* C11: the screen's progress socket lives only while the mounted screen is
\* loading: ws.current holds a socket exactly when the screen is mounted with
\* isLoading true, every progress socket that is connecting or open is the one
\* ws.current holds, and so there is never more than one.
C11_ProgressSocket ==
  /\ (wsCurrent # "null") <=> (uploadMounted /\ isLoading)
  /\ progressSockets = (IF Live(wsCurrent) THEN 1 ELSE 0)
  /\ progressSockets <= 1

\* C11 witness: an upload has ended (here with an error alert) after its
\* progress socket was created, and the socket is closed and ws.current null.
C11_Witness ==
  /\ uploadMounted
  /\ alert = "Error"
  /\ uploadError = ErrServer
  /\ ~isLoading
  /\ wsCurrent = "null"
  /\ progressSockets = 0

\* C12 as stated: the socket of a processFileWithWebSocket call is neither
\* connecting nor open once the call has settled or once the FileUploadScreen
\* that made the call has unmounted.
C12_Original ==
  /\ settledSockets = 0
  /\ \A i \in DOMAIN calls : calls[i].stale => ~Live(calls[i].readyState)

\* The part of C12 about settled calls: no settled call has left its socket
\* connecting or open.
SettledSocketsClosed == settledSockets = 0

(***************************************************************************)
(* Claims about failed requests on both screens (SpecRequests).             *)
(***************************************************************************)
\* The messages processFileAPI rejects with.
RejectionMessages == {ErrRead, ErrSocket, ErrClosed, ErrServer, ErrTimeout, ErrHttp}

\* A step in which a generation request of NumQuestionsScreen settles with a
\* rejection or without MCQs.
GenerationFails ==
  /\ Len(genRequests') < Len(genRequests)
  /\ genResult' \in {"rejected", "empty", "undefined"}

\* A step in which a processFileAPI call of FileUploadScreen rejects.
CallRejects ==
  /\ Len(calls') < Len(calls)
  /\ callResult'.status = "rejected"

\* C13: a request that fails (rejects or, on NumQuestionsScreen, returns no
\* MCQs) shows the 'Error' alert, does not navigate, resets the loading flag of
\* the screen that issued it and issues no request; a request is issued only
\* by a press of a button that starts one.
C13_FailureSurfacedOnce ==
  [][ /\ GenerationFails =>
           /\ alert' = "Error"
           /\ route' = route
           /\ screenMcqs' = screenMcqs
           /\ ~loading'
           /\ Len(genRequests') = Len(genRequests) - 1
           /\ calls' = calls
      /\ CallRejects =>
           /\ alert' = "Error"
           /\ uploadError' \in RejectionMessages
           /\ route' = route
           /\ navParams' = navParams
           /\ \A i \in DOMAIN calls :
                (calls' = RemoveAt(calls, i) /\ ~calls[i].stale) => ~isLoading'
           /\ Len(calls') = Len(calls) - 1
           /\ genRequests' = genRequests
      /\ Len(genRequests') > Len(genRequests) =>
           NumQInteractive /\ ~GenerateDisabled
      /\ Len(calls') > Len(calls) =>
           ContinuePressable \/ BookOptionPressable
    ]_vars

\* C13 witness: a processFileAPI call has rejected with a socket error; the
\* alert is up, FileUpload is still focused, isLoading is false and no call is
\* outstanding.
C13_Witness ==
  /\ uploadMounted
  /\ route = "FileUpload"
  /\ alert = "Error"
  /\ uploadError = ErrSocket
  /\ callResult.status = "rejected"
  /\ ~isLoading
  /\ calls = <<>>

(***************************************************************************)
(* Claims about failures of an export (SpecExport).                        *)
(***************************************************************************)
\* C14: no failure leaves an export call: a call in which a step threw or
\* rejected ends with exactly the failure alert of its function, generateMCQFile
\* returning false and generateResultReport returning nothing; a call that
\* found sharing unavailable ends with that alert and without a share call;
\* generateMCQFile returns true only when no step failed, no alert was shown
\* and its one share call has completed.
C14_FailuresCaught ==
  /\ expFailure # "none" =>
        /\ expPc = "done"
        /\ expAlerts = <<AlertFailed(expFn)>>
        /\ expReturn = ReturnOf(expFn, FALSE)
  /\ (expPc = "done" /\ expAlerts = <<AlertNoSharing(expFn)>>) =>
        /\ shareCalls = 0
        /\ expReturn = ReturnOf(expFn, FALSE)
  /\ expReturn = "true" =>
        /\ expFn = "generateMCQFile"
        /\ expPc = "done"
        /\ expFailure = "none"
        /\ expAlerts = <<>>
        /\ shareCalls = 1
  /\ expPc = "done" =>
        expReturn = (IF expFn = "generateMCQFile"
                       THEN (IF expAlerts = <<>> THEN "true" ELSE "false")
                       ELSE Undefined)
  /\ expPc \notin {"idle", "done"} => expReturn = "pending" /\ expAlerts = <<>>

\* C14 witness: the share call of generateMCQFile was rejected; the call has
\* ended with the failure alert and returned false.
C14_Witness ==
  /\ expFn = "generateMCQFile"
  /\ expFailure = "shareAsync"
  /\ shareCalls = 1
  /\ expPc = "done"
  /\ expReturn = "false"
  /\ expAlerts = <<AlertFailed("generateMCQFile")>>

(***************************************************************************)
(* Claims about ChapterSelectionScreen (SpecChapters).                      *)
(***************************************************************************)
\* C15 as stated: after Continue with at least one chapter selected, the
\* NumQuestions screen holds the joined content of the selected chapters as
\* the content it generates questions from.
C15_Original ==
  (/\ route = "NumQuestions"
   /\ nqMounted
   /\ nqParams.from = "ChapterSelection"
   /\ Len(selectedChapters) >= 1)
    => nqParams.content = SelectedContent(csChapters, selectedChapters)

(***************************************************************************)
(* Claims about the entries of MCQScreen and MCQResult (SpecFlow).          *)
(***************************************************************************)
\* C16: MCQScreen is entered only by the step in which a generation request of
\* NumQuestionsScreen settles with a non-empty MCQ list, and it never holds an
\* empty or missing list; MCQResult is entered only by a Submit on
\* MCQAssessment, at the last question, with every question answered.
C16_EntryGuards ==
  [][ /\ (route' = "MCQScreen" /\ route # "MCQScreen") =>
           /\ Len(genRequests) >= 1
           /\ Len(genRequests') = Len(genRequests) - 1
           /\ genResult' = "mcqs"
      /\ route' = "MCQScreen" => screenMcqs' = "mcqs"
      /\ (route' = "MCQResult" /\ route # "MCQResult") =>
           /\ route = "MCQAssessment"
           /\ Len(mcqs) >= 1
           /\ currentQuestion = Len(mcqs) - 1
           /\ \A i \in 0..(Len(mcqs) - 1) : Get(selectedAnswers, i) # Undefined
           /\ Len(results') = Len(mcqs)
    ]_vars

\* C16 witness: MCQScreen has been entered with the list a generation request
\* returned.
C16_Witness ==
  /\ route = "MCQScreen"
  /\ genResult = "mcqs"
  /\ screenMcqs = "mcqs"


\* Call i is the one a step settles.
SettlesCall(i) == Len(calls') < Len(calls) /\ calls' = RemoveAt(calls, i)

SomeUnanswered ==
  \E i \in 0..(Len(mcqs) - 1) : Get(selectedAnswers, i) = Undefined

\* C18: a Submit press while some question has no selected answer shows the
\* 'Incomplete' alert, does not navigate and leaves selectedAnswers and
\* currentQuestion unchanged; whenever MCQResult is reached, results has one
\* entry per question in question order, and each userAnswer is defined and is
\* one of that question's options.
C18_SubmitGuard ==
  [][/\ (HandleSubmit /\ SomeUnanswered)
          => /\ alert' = "Incomplete"
             /\ route' = route
             /\ selectedAnswers' = selectedAnswers
             /\ currentQuestion' = currentQuestion
     /\ (route # "MCQResult" /\ route' = "MCQResult")
          => /\ Len(results') = Len(mcqs)
             /\ \A i \in 1..Len(mcqs) :
                  /\ results'[i].question = mcqs[i].question
                  /\ results'[i].options = mcqs[i].options
                  /\ results'[i].userAnswer # Undefined
                  /\ results'[i].userAnswer \in OptionTexts(mcqs, i)
    ]_vars

\* C18 witness: Submit was pressed with one of two questions answered and the
\* 'Incomplete' alert is up on the assessment screen.
C18_Witness ==
  /\ route = "MCQAssessment"
  /\ alert = "Incomplete"
  /\ Len(mcqs) = 2
  /\ KeyCount(selectedAnswers) = 1
  /\ results = <<>>


ViewInRange ==
  (route = "MCQAssessment" /\ Len(mcqs) >= 1)
    => /\ renderedQuestion \in 0..(Len(mcqs) - 1)
       /\ ViewCurrent => currentQuestion \in 0..(Len(mcqs) - 1)


\* The option of question index q (0-based) that was pressed last.
PressedText(q) == mcqs[q + 1].options[pressed[q]]

\* C20: scoring depends only on option text. The selection keeps the text of
\* the pressed option and nothing else, so every option with that text is
\* drawn as selected; at MCQResult the score counts the questions whose
\* pressed option has the text of the generated answer, whether or not the
\* pressed option is the answer itself, and a pressed distractor with the
\* answer's text gives a result entry equal to the one the answer gives.
C20_TextOnlyScoring ==
  /\ DOMAIN pressed = DOMAIN selectedAnswers
  /\ \A q \in DOMAIN pressed :
       /\ selectedAnswers[q] = PressedText(q)
       /\ \A j \in 1..Len(mcqs[q + 1].options) :
            IsSelected(selectedAnswers, q, mcqs[q + 1].options[j])
              <=> mcqs[q + 1].options[j] = PressedText(q)
  /\ route = "MCQResult" =>
       /\ score = Cardinality({ q \in DOMAIN pressed :
                                  PressedText(q) = generatedMCQs[q + 1].answer })
       /\ \A q \in DOMAIN pressed :
            /\ results[q + 1].userAnswer = PressedText(q)
            /\ (pressed[q] # answerAt[q + 1]
                /\ PressedText(q) = generatedMCQs[q + 1].answer)
               => results[q + 1] =
                    [question |-> generatedMCQs[q + 1].question,
                     options |-> mcqs[q + 1].options,
                     correctAnswer |-> generatedMCQs[q + 1].answer,
                     userAnswer |-> mcqs[q + 1].options[answerAt[q + 1]]]

\* C20 witness: one question whose distractor repeats the answer's text; the
\* distractor was pressed and the submitted score is 1 of 1.
C20_Witness ==
  /\ route = "MCQResult"
  /\ Len(mcqs) = 1
  /\ pressed[0] # answerAt[1]
  /\ PressedText(0) = generatedMCQs[1].answer
  /\ score = 1
  /\ results[1].userAnswer = results[1].correctAnswer


\* How many times text occurs in options.
Occurrences(options, text) ==
  Cardinality({ j \in DOMAIN options : options[j] = text })

\* C21: for every question that reaches the assessment through MCQScreen,
\* whatever options the backend supplied, the assessment's options hold the
\* correct answer exactly once and otherwise exactly the backend options that
\* differ from the correct answer.
C21_AnswerExactlyOnce ==
  (route = "MCQAssessment" /\ Len(backendMcqs) > 0 /\ mcqs # <<>>)
    => /\ Len(mcqs) = Len(backendMcqs)
       /\ \A i \in 1..Len(mcqs) :
            /\ mcqs[i].correctAnswer = backendMcqs[i].correct_answer
            /\ Occurrences(mcqs[i].options, backendMcqs[i].correct_answer) = 1
            /\ \A text \in {"a", "b"} \ {backendMcqs[i].correct_answer} :
                 Occurrences(mcqs[i].options, text)
                   = Occurrences(backendMcqs[i].options, text)

\* C21 witness: the backend listed the correct answer twice for the first
\* question and not at all for the second, and the assessment has its options.
C21_Witness ==
  /\ route = "MCQAssessment"
  /\ Len(backendMcqs) = 2
  /\ backendMcqs[1].options = <<"a", "a">>
  /\ backendMcqs[2].options = <<"b", "b">>
  /\ Len(mcqs) = 2


\* The texts among the options of a generated question.
TextsOf(options) == { options[j] : j \in DOMAIN options }

\* shuffled holds the same texts as options, each as many times.
SameMultiset(shuffled, options) ==
  /\ Len(shuffled) = Len(options)
  /\ \A text \in TextsOf(options) \cup TextsOf(shuffled) :
       Occurrences(shuffled, text) = Occurrences(options, text)

\* C22: the shuffle only reorders. For every question the shuffled options
\* are a permutation of [answer, ...distractors], correctAnswer is the
\* generated answer and is among the options, the questions keep their order,
\* and once the options are set no later step (selecting an answer, moving
\* between questions, submitting) changes them.
C22_ShuffleOnlyReorders ==
  [][/\ mcqs' # <<>>
          => /\ Len(mcqs') = Len(generatedMCQs')
             /\ \A i \in 1..Len(mcqs') :
                  /\ mcqs'[i].question = generatedMCQs'[i].question
                  /\ mcqs'[i].correctAnswer = generatedMCQs'[i].answer
                  /\ mcqs'[i].correctAnswer \in TextsOf(mcqs'[i].options)
                  /\ SameMultiset(mcqs'[i].options,
                                  CombineOptions(generatedMCQs'[i]))
     /\ mcqs # <<>> => mcqs' = mcqs
    ]_vars

\* C22 witness: the options of the first question are in another order than
\* [answer, ...distractors], an answer was selected and the second question
\* is on display.
C22_Witness ==
  /\ route = "MCQAssessment"
  /\ Len(mcqs) = 2
  /\ mcqs[1].options # CombineOptions(generatedMCQs[1])
  /\ KeyCount(selectedAnswers) = 1
  /\ currentQuestion = 1
  /\ ViewCurrent


\* The indices a selection holds.
IndexSet(selected) == { selected[k] : k \in 1..Len(selected) }

\* C23: after any sequence of toggles selectedChapters holds no index twice
\* and only indices of existing chapters; toggling the same chapter twice
\* gives back the selection set there was; and no step taken with an empty
\* selection leaves ChapterSelectionScreen.
C23_SelectionWellFormed ==
  [][/\ route' = "ChapterSelection"
          => /\ Cardinality(IndexSet(selectedChapters')) = Len(selectedChapters')
             /\ IndexSet(selectedChapters') \subseteq 0..(Len(csChapters') - 1)
             /\ \A index \in 0..(Len(csChapters') - 1) :
                  IndexSet(Toggle(Toggle(selectedChapters', index), index))
                    = IndexSet(selectedChapters')
     /\ (route = "ChapterSelection" /\ Len(selectedChapters) = 0)
          => route' = "ChapterSelection"
    ]_vars

\* C23 witness: both chapters are selected, the second one first.
C23_Witness ==
  /\ route = "ChapterSelection"
  /\ csChapters = <<"c1", "c2">>
  /\ selectedChapters = <<1, 0>>


\* The contents of the selected chapters in chapter-index order.
DocumentOrder(chapters, selected) ==
  LET indices == SelectSeq([i \in 1..Len(chapters) |-> i - 1],
                           LAMBDA i : i \in IndexSet(selected))
  IN [k \in 1..Len(indices) |-> chapters[indices[k] + 1]]

\* C24 (as stated): the content handleContinue passes on is the contents of
\* exactly the selected chapters, each once, joined by a blank line in
\* chapter-index order, whatever the order of the taps.
C24_Original ==
  [][HandleContinue
       => SelectedContent(csChapters, selectedChapters)
            = Join(DocumentOrder(csChapters, selectedChapters))
    ]_vars

\* What does hold: the content is the contents of exactly the selected
\* chapters, each once, joined in the order of the taps.
TapOrderContent ==
  (route = "ChapterSelection" /\ Len(selectedChapters) >= 1)
    => /\ Cardinality(IndexSet(selectedChapters)) = Len(selectedChapters)
       /\ SelectedContent(csChapters, selectedChapters)
            = Join([k \in 1..Len(selectedChapters) |->
                      csChapters[selectedChapters[k] + 1]])


\* C25 as stated: the socket through which the file is processed is keyed by
\* the client identifier that keys the screen's progress socket.  The code
\* draws the two identifiers separately (FileUploadScreen.js line 25 and
\* apiService.js line 21) and never hands the screen's to the service.
C25_Original ==
  wsClientId # "none" => wsClientId = sessionClientId


\* The step handles a message of the given status.
HandlesMessage(status) ==
  wsEvent'.type = "message" /\ wsEvent'.status = status

\* C26 (amended): in a processFileWithWebSocket call the process_file command
\* is sent at most once, in the handling of the socket's open event and in
\* every such handling, so a call that resolves has sent it exactly once; the
\* promise passes from pending to resolved only on a message whose status is
\* 'complete', with that message's data; a pending promise is rejected by a
\* message whose status is 'error'; a message of any other status changes
\* neither the promise nor the socket's state; and a settled promise is not
\* changed by any later message, close event, error or timer expiry.
C26_SendAndSettle ==
  [][ /\ wsSent' \in {0, 1}
      /\ wsSent' # wsSent => wsEvent'.type = "open"
      /\ wsEvent'.type = "open" => wsSent = 0 /\ wsSent' = 1
      /\ wsPromise.state = "pending" /\ wsPromise'.state = "resolved"
           => /\ HandlesMessage("complete")
              /\ wsPromise'.value = wsEvent'.data
              /\ wsSent' = 1
      /\ wsPromise.state = "pending" /\ HandlesMessage("complete")
           => wsPromise' = [state |-> "resolved", value |-> wsEvent'.data]
      /\ wsPromise.state = "pending" /\ HandlesMessage("error")
           => wsPromise'.state = "rejected"
      /\ wsEvent'.type = "message" /\ wsEvent'.status \notin {"complete", "error"}
           => wsPromise' = wsPromise /\ wsReadyState' = wsReadyState
      /\ wsPromise.state # "pending" => wsPromise' = wsPromise
    ]_vars

\* C26 witness: the call sent its command once, resolved, and its socket has
\* since closed abnormally, which left the resolution as it was.
C26_Witness ==
  /\ wsPromise = [state |-> "resolved", value |-> "d2"]
  /\ wsSent = 1
  /\ wsEvent = Event("close", "none", 1006)

\* C26 as stated, first clause: the command is sent exactly once per call.  A
\* call whose file read fails, or whose socket fails before opening, is
\* rejected without having sent it.
C26_Original ==
  wsPromise.state # "pending" => wsSent = 1


\* C27 as stated, last clause: when the route params hold the content the
\* user chose, the request a press of Generate issues generates from that
\* content.  With the file triple also present (the params FileUploadScreen
\* passes in unnamed/part_006, lines 184-191 and 258-265) the request goes
\* to the file endpoint with the whole file and without the content.
C27_Original ==
  \A k \in 1..Len(genRequests) :
    nqParams.content # Undefined => genRequests[k].text = nqParams.content

\* The clauses of C27 that hold: a press issues at most one request, to the
\* file endpoint iff the file triple is present and otherwise to the text
\* endpoint with the content, carrying the slider's current value.
RequestPerPress ==
  [][ genRequests' # genRequests /\ Len(genRequests') > Len(genRequests)
        => /\ Len(genRequests') = Len(genRequests) + 1
           /\ genRequests'[Len(genRequests')] =
                IF IsFileRequest(nqParams)
                  THEN FileRequest(nqParams, numQuestions)
                  ELSE TextRequest(nqParams, numQuestions)
           /\ numQuestions \in MinimumValue..MaximumValue
    ]_vars


\* The OK response whose JSON object has no mcqs field.
ReplyWithoutMcqs == [ok |-> TRUE, body |-> [json |-> "object", mcqs |-> Undef]]

ListedTexts(q) == [j \in 1..Len(q.options) |-> q.options[j].text]

\* C29: in the document generateMCQFile hands to the printer or writes to the
\* text file, question i is the i-th question of the input, its options are
\* the input's answer followed by its distractors in their order, lettered
\* from 'A', so option A is the answer; the answer key has one entry per
\* question, and entry i is question i's answer.
C29_UnshuffledExport ==
  expFn = "generateMCQFile" /\ expFile # NoFile =>
    /\ Len(expFile.questions) = Len(expList.items)
    /\ Len(expFile.answerKey) = Len(expList.items)
    /\ \A i \in 1..Len(expList.items) :
         /\ expFile.questions[i].number = i
         /\ expFile.questions[i].question = expList.items[i].question
         /\ ListedTexts(expFile.questions[i]) =
              <<expList.items[i].answer>> \o expList.items[i].distractors
         /\ \A j \in 1..Len(expFile.questions[i].options) :
              expFile.questions[i].options[j].letter = 65 + (j - 1)
         /\ expFile.questions[i].options[1] =
              [letter |-> 65, text |-> expList.items[i].answer]
         /\ expFile.answerKey[i] = [number |-> i, answer |-> expList.items[i].answer]

\* C29 witness: a text file of two questions has been written and shared; its
\* first question lists the answer "b" as option A and the distractor "a" as
\* option B.
C29_Witness ==
  /\ expFn = "generateMCQFile"
  /\ expFormat = "txt"
  /\ expReturn = "true"
  /\ Len(expList.items) = 2
  /\ expList.items[1].answer = "b"
  /\ ListedTexts(expFile.questions[1]) = <<"b", "a">>
  /\ expFile.answerKey[2].answer = expList.items[2].answer

============================================================================
